---- MODULE Spec2Model ----
(***************************************************************************)
(* Booking engine of be-event: TransactionService (createTransaction,      *)
(* updateTransactionStatus, uploadPaymentProof, validateCoupon,            *)
(* validateVoucher, isValidStatusTransition, restoreResources).            *)
(*                                                                         *)
(* Every service method is split at the awaits that separate its reads     *)
(* from its writes: the reads outside prisma.$transaction are steps of     *)
(* their own, the callback of prisma.$transaction is one atomic step that  *)
(* either commits all of its writes or none of them.                       *)
(***************************************************************************)
EXTENDS Integers, Sequences, FiniteSets, TLC

\* ------------------------------------------------------------------ bounds
MaxTx == 2            \* transactions ever created in one behaviour
MaxQuantity == 2      \* largest quantity a request asks for
MaxPointsUsed == 1    \* largest pointsUsed a request asks for
MaxNow == 3           \* hours the clock is followed from a start or a jump
MaxUsers == 4         \* user accounts ever created in one behaviour

\* ------------------------------------------------------------- the world
Procs == {1, 2}                 \* concurrent callers of the service
Users == {1, 2}                 \* existing customers
NoCode == "none"                \* couponCode / voucherCode not supplied
NoId == 0                       \* null couponId / voucherId

\* rows of the tables that the booking engine only reads
\* event 2 is a draft, event 3 ended before the clock starts; ticket type 8
\* costs more than the discount of a welcome coupon
Events ==
  1 :> [id |-> 1, organizerId |-> 10, published |-> TRUE, endDate |-> 9] @@
  2 :> [id |-> 2, organizerId |-> 10, published |-> FALSE, endDate |-> 9] @@
  3 :> [id |-> 3, organizerId |-> 10, published |-> TRUE, endDate |-> -1]

TicketTypes ==
  1 :> [id |-> 1, eventId |-> 1, price |-> 2, totalSeats |-> 2, deleted |-> FALSE] @@
  2 :> [id |-> 2, eventId |-> 1, price |-> 2, totalSeats |-> 1, deleted |-> FALSE] @@
  3 :> [id |-> 3, eventId |-> 1, price |-> 0, totalSeats |-> 2, deleted |-> FALSE] @@
  4 :> [id |-> 4, eventId |-> 1, price |-> 2, totalSeats |-> 1, deleted |-> TRUE] @@
  5 :> [id |-> 5, eventId |-> 2, price |-> 2, totalSeats |-> 1, deleted |-> FALSE] @@
  6 :> [id |-> 6, eventId |-> 3, price |-> 2, totalSeats |-> 1, deleted |-> FALSE] @@
  8 :> [id |-> 8, eventId |-> 1, price |-> 60000, totalSeats |-> 2, deleted |-> FALSE]

Coupons ==
  1 :> [id |-> 1, code |-> "SAVE", discountValue |-> 1, usageLimit |-> 1,
        startDate |-> 0, endDate |-> 9, deleted |-> FALSE] @@
  2 :> [id |-> 2, code |-> "TWICE", discountValue |-> 1, usageLimit |-> 2,
        startDate |-> 0, endDate |-> 9, deleted |-> FALSE] @@
  3 :> [id |-> 3, code |-> "LATER", discountValue |-> 1, usageLimit |-> 2,
        startDate |-> 1, endDate |-> 2, deleted |-> FALSE] @@
  4 :> [id |-> 4, code |-> "GONE", discountValue |-> 1, usageLimit |-> 2,
        startDate |-> 0, endDate |-> 9, deleted |-> TRUE]

Vouchers ==
  1 :> [id |-> 1, code |-> "VOUCH", eventId |-> 1, discountValue |-> 1,
        usageLimit |-> 1, startDate |-> 0, endDate |-> 9, deleted |-> FALSE] @@
  2 :> [id |-> 2, code |-> "OTHER", eventId |-> 2, discountValue |-> 1,
        usageLimit |-> 1, startDate |-> 0, endDate |-> 9, deleted |-> FALSE]

InitialPoints == [u \in Users |-> 1]

\* the accounts of the existing customers; the referral code that
\* generateReferralCode draws for user id is modelled by the string
\* RefCode(id) (a clash of two drawn codes is not followed)
RefCode(id) == "REF" \o ToString(id)
Email(id) == "user" \o ToString(id) \o "@mail"

InitialUsers ==
  [u \in Users |-> [id |-> u, email |-> Email(u), role |-> "CUSTOMER",
                     referralCode |-> RefCode(u), referredById |-> NoId]]

TicketTypeIds == DOMAIN TicketTypes
CouponIds == DOMAIN Coupons
VoucherIds == DOMAIN Vouchers

Statuses ==
  {"WAITING_FOR_PAYMENT", "WAITING_FOR_CONFIRMATION", "DONE", "REJECTED",
   "EXPIRED", "CANCELLED"}

\* ----------------------------------------------------------------- state
VARIABLES
  availableSeats,   \* ticketType.availableSeats, per ticket type
  points,           \* user.points, per user
  transactions,     \* the transaction table, row i has id i
  userCoupons,      \* per (user, coupon): number of USED and of ACTIVE rows
  userVouchers,     \* per (user, voucher): number of USED and of ACTIVE rows
  restoreLog,       \* per transaction id: committed runs of restoreResources
  users,            \* the user table without its points, per user id
  coupons,          \* the coupon table, per coupon id
  events,           \* per event id: published, deleted (deletedAt set)
  now,              \* the clock
  outbox,           \* the mails <<id, status>> handed to the mail service
                    \* by the call whose response is on its way
  call,             \* per caller: the request in flight and what it has read
  response          \* what the call that completed in the last step returned

vars ==
  <<availableSeats, points, transactions, userCoupons, userVouchers,
    restoreLog, users, coupons, events, now, outbox, call, response>>

dbvars ==
  <<availableSeats, points, transactions, userCoupons, userVouchers,
    restoreLog, users, coupons, events>>

\* the database as one value, so that a unit of work can be rolled back
DB ==
  [availableSeats |-> availableSeats, points |-> points,
   transactions |-> transactions, userCoupons |-> userCoupons,
   userVouchers |-> userVouchers, restoreLog |-> restoreLog,
   users |-> users, coupons |-> coupons, events |-> events]

Max(a, b) == IF a >= b THEN a ELSE b

RECURSIVE SumOver(_, _)
SumOver(S, f) ==
  IF S = {} THEN 0
  ELSE LET x == CHOOSE y \in S : TRUE IN f[x] + SumOver(S \ {x}, f)

\* ------------------------------------------------------------- responses
OK == "ok"
ErrUserNotFound == "User not found"
ErrTicketTypeNotFound == "Ticket type not found"
ErrWrongEvent == "Ticket type does not belong to this event"
ErrNotPublished == "Event is not published"
ErrEventExpired == "Cannot purchase tickets for expired events"
ErrNotEnoughSeats == "Not enough available seats"
ErrInsufficientPoints == "Insufficient points"
ErrFinalAmount == "Final amount must be greater than 0 for paid events"
ErrInvalidCoupon == "Invalid coupon code"
ErrCouponInactive == "Coupon is not active"
ErrCouponLimit == "Coupon usage limit exceeded"
ErrCouponUsed == "You have already used this coupon"
ErrInvalidVoucher == "Invalid voucher code"
ErrVoucherInactive == "Voucher is not active"
ErrVoucherLimit == "Voucher usage limit exceeded"
ErrVoucherUsed == "You have already used this voucher"
ErrOrganizerRequired == "OrganizerId is required for manual status updates"
ErrTransactionNotFound == "Transaction not found"
ErrInvalidTransition == "Invalid status transition"
ErrNotWaitingForPayment == "Transaction is not in waiting for payment status"
ErrUploadExpired == "Payment proof upload time has expired"
\* what the data layer throws, not an ApiError of the service
ErrRecordNotFound == "P2025 record to update not found"
ErrDatabase == "database failure"

NoResponse == [op |-> "none", result |-> "none"]
Idle == [op |-> "none", pc |-> "idle"]
Done == [op |-> "none", pc |-> "done"]

\* a caller sends its next request once the last response has been delivered
Free(p) == call[p].pc \in {"idle", "done"} /\ response = NoResponse

At(p, op, pc) == call[p].op = op /\ call[p].pc = pc /\ response = NoResponse

Respond(p, op, result) ==
  /\ call' = [call EXCEPT ![p] = Done]
  /\ response' = [op |-> op, result |-> result]

Continue(p, c) ==
  /\ call' = [call EXCEPT ![p] = c]
  /\ response' = NoResponse

\* --------------------------------------------------------- validateCoupon
UsedCount(table, grantId) ==
  LET holders == {k[1] : k \in DOMAIN table} IN
  SumOver(holders, [u \in holders |-> table[<<u, grantId>>].USED])

\* a validation that looks for the user's own record before the limit
validateCouponUsedFirst(db, code, userId, t) ==
  LET found == {c \in DOMAIN db.coupons :
                  db.coupons[c].code = code /\ ~db.coupons[c].deleted} IN
  IF found = {} THEN [error |-> ErrInvalidCoupon, grant |-> NoId]
  ELSE LET c == CHOOSE x \in found : TRUE IN
    IF t < db.coupons[c].startDate \/ t > db.coupons[c].endDate
      THEN [error |-> ErrCouponInactive, grant |-> NoId]
    ELSE IF db.userCoupons[<<userId, c>>].USED > 0
      THEN [error |-> ErrCouponUsed, grant |-> NoId]
    ELSE IF UsedCount(db.userCoupons, c) >= db.coupons[c].usageLimit
      THEN [error |-> ErrCouponLimit, grant |-> NoId]
    ELSE [error |-> OK, grant |-> c]

\* lines 659-690
validateCoupon(db, code, userId, t) ==
  LET found == {c \in DOMAIN db.coupons :
                  db.coupons[c].code = code /\ ~db.coupons[c].deleted} IN
  IF found = {} THEN [error |-> ErrInvalidCoupon, grant |-> NoId]
  ELSE LET c == CHOOSE x \in found : TRUE IN
    IF t < db.coupons[c].startDate \/ t > db.coupons[c].endDate
      THEN [error |-> ErrCouponInactive, grant |-> NoId]
    ELSE IF UsedCount(db.userCoupons, c) >= db.coupons[c].usageLimit
      THEN [error |-> ErrCouponLimit, grant |-> NoId]
    ELSE IF db.userCoupons[<<userId, c>>].USED > 0
      THEN [error |-> ErrCouponUsed, grant |-> NoId]
    ELSE [error |-> OK, grant |-> c]

validateVoucher(db, code, eventId, userId, t) ==
  LET found == {v \in VoucherIds : /\ Vouchers[v].code = code
                                   /\ Vouchers[v].eventId = eventId
                                   /\ ~Vouchers[v].deleted} IN
  IF found = {} THEN [error |-> ErrInvalidVoucher, grant |-> NoId]
  ELSE LET v == CHOOSE x \in found : TRUE IN
    IF t < Vouchers[v].startDate \/ t > Vouchers[v].endDate
      THEN [error |-> ErrVoucherInactive, grant |-> NoId]
    ELSE IF UsedCount(db.userVouchers, v) >= Vouchers[v].usageLimit
      THEN [error |-> ErrVoucherLimit, grant |-> NoId]
    ELSE IF db.userVouchers[<<userId, v>>].USED > 0
      THEN [error |-> ErrVoucherUsed, grant |-> NoId]
    ELSE [error |-> OK, grant |-> v]

\* ------------------------------------------------- isValidStatusTransition
\* a table in which an expired booking can still be cancelled
validTransitionsReopened ==
  [s \in Statuses |->
     CASE s = "WAITING_FOR_PAYMENT" ->
            {"WAITING_FOR_CONFIRMATION", "EXPIRED", "CANCELLED"}
       [] s = "WAITING_FOR_CONFIRMATION" -> {"DONE", "REJECTED", "CANCELLED"}
       [] s = "EXPIRED" -> {"CANCELLED"}
       [] OTHER -> {}]

validTransitions ==
  [s \in Statuses |->
     CASE s = "WAITING_FOR_PAYMENT" ->
            {"WAITING_FOR_CONFIRMATION", "EXPIRED", "CANCELLED"}
       [] s = "WAITING_FOR_CONFIRMATION" -> {"DONE", "REJECTED", "CANCELLED"}
       [] OTHER -> {}]

\* a check that also lets a status be written over itself
isValidStatusTransitionSame(currentStatus, newStatus) ==
  /\ currentStatus \in DOMAIN validTransitions
  /\ newStatus \in validTransitions[currentStatus] \cup {currentStatus}

isValidStatusTransition(currentStatus, newStatus) ==
  /\ currentStatus \in DOMAIN validTransitions
  /\ newStatus \in validTransitions[currentStatus]

\* ------------------------------------------------------- createTransaction
TwoHours == 2     \* expiresAt = now + 2 * 60 * 60 * 1000 ms, the clock counts hours
NoProof == "none"

CreateFaults ==
  {"none", "ticketType.update", "transaction.create", "user.update",
   "userCoupon.create", "userVoucher.create"}

totalAmount(c) == c.ticketType.price * c.args.quantity

\* a final amount without its floor of zero
finalAmountUnfloored(c) ==
  totalAmount(c) - c.discountAmount - c.args.pointsUsed

finalAmount(c) ==
  Max(0, totalAmount(c) - c.discountAmount - c.args.pointsUsed)

\* a row that does not record the points the booking spent
NewTransactionNoPoints(id, c, t) ==
  [id |-> id, userId |-> c.args.userId, organizerId |-> c.organizerId,
   eventId |-> c.args.eventId, status |-> "WAITING_FOR_PAYMENT",
   ticketTypeId |-> c.args.ticketTypeId, quantity |-> c.args.quantity,
   unitPrice |-> c.ticketType.price, totalAmount |-> totalAmount(c),
   pointsUsed |-> 0, couponId |-> c.couponId,
   voucherId |-> c.voucherId, finalAmount |-> finalAmount(c),
   expiresAt |-> t + TwoHours, paymentProof |-> NoProof, updatedAt |-> t]

\* a row whose payment deadline is the instant of its creation
NewTransactionAtOnce(id, c, t) ==
  [id |-> id, userId |-> c.args.userId, organizerId |-> c.organizerId,
   eventId |-> c.args.eventId, status |-> "WAITING_FOR_PAYMENT",
   ticketTypeId |-> c.args.ticketTypeId, quantity |-> c.args.quantity,
   unitPrice |-> c.ticketType.price, totalAmount |-> totalAmount(c),
   pointsUsed |-> c.args.pointsUsed, couponId |-> c.couponId,
   voucherId |-> c.voucherId, finalAmount |-> finalAmount(c),
   expiresAt |-> t, paymentProof |-> NoProof, updatedAt |-> t]

\* lines 118-133: the row that tx.transaction.create stores
NewTransaction(id, c, t) ==
  [id |-> id, userId |-> c.args.userId, organizerId |-> c.organizerId,
   eventId |-> c.args.eventId, status |-> "WAITING_FOR_PAYMENT",
   ticketTypeId |-> c.args.ticketTypeId, quantity |-> c.args.quantity,
   unitPrice |-> c.ticketType.price, totalAmount |-> totalAmount(c),
   pointsUsed |-> c.args.pointsUsed, couponId |-> c.couponId,
   voucherId |-> c.voucherId, finalAmount |-> finalAmount(c),
   expiresAt |-> t + TwoHours, paymentProof |-> NoProof, updatedAt |-> t]

\* a unit of work whose writes up to the failure stay
RollbackPartial(before, partial, error) == [db |-> partial, result |-> error]

\* a unit of work that throws: prisma.$transaction rolls every write back
Rollback(before, partial, error) == [db |-> before, result |-> error]

\* the callback of prisma.$transaction in createTransaction; fault names the
\* statement at which the database fails, if any
createTransactionTx(db, c, fault, t) ==
  LET a  == c.args
      tt == a.ticketTypeId
      u  == a.userId
      d1 == [db EXCEPT !.availableSeats[tt] =
                          c.ticketType.availableSeats - a.quantity]
      d2 == [d1 EXCEPT !.transactions =
                          Append(@, NewTransaction(Len(@) + 1, c, t)),
                       !.restoreLog = Append(@, 0)]
      d3 == IF a.pointsUsed > 0
              THEN [d2 EXCEPT !.points[u] = @ - a.pointsUsed] ELSE d2
      d4 == IF c.couponId # NoId
              THEN [d3 EXCEPT !.userCoupons[<<u, c.couponId>>].USED = @ + 1]
              ELSE d3
      d5 == IF c.voucherId # NoId
              THEN [d4 EXCEPT !.userVouchers[<<u, c.voucherId>>].USED = @ + 1]
              ELSE d4
  IN  IF db.availableSeats[tt] < a.quantity
        THEN Rollback(db, db, ErrRecordNotFound)
      ELSE IF fault = "ticketType.update" THEN Rollback(db, db, ErrDatabase)
      ELSE IF fault = "transaction.create" THEN Rollback(db, d1, ErrDatabase)
      ELSE IF fault = "user.update" /\ a.pointsUsed > 0
        THEN Rollback(db, d2, ErrDatabase)
      ELSE IF fault = "userCoupon.create" /\ c.couponId # NoId
        THEN Rollback(db, d3, ErrDatabase)
      ELSE IF fault = "userVoucher.create" /\ c.voucherId # NoId
        THEN Rollback(db, d4, ErrDatabase)
      ELSE [db |-> d5, result |-> OK]

Write(db) ==
  /\ availableSeats' = db.availableSeats
  /\ points' = db.points
  /\ transactions' = db.transactions
  /\ userCoupons' = db.userCoupons
  /\ userVouchers' = db.userVouchers
  /\ restoreLog' = db.restoreLog
  /\ users' = db.users
  /\ coupons' = db.coupons
  /\ events' = db.events

CreatesInFlight == Cardinality({q \in Procs : call[q].op = "createTransaction"})

\* a check that lets a paid booking through at a final amount of zero
PricedStrict(p, c) ==
  IF c.ticketType.price # 0 /\ finalAmount(c) < 0
    THEN Respond(p, c.op, ErrFinalAmount)
    ELSE Continue(p, [c EXCEPT !.pc = "tx"])

\* lines 91-101: the price, checked after the last read
Priced(p, c) ==
  IF c.ticketType.price # 0 /\ finalAmount(c) <= 0
    THEN Respond(p, c.op, ErrFinalAmount)
    ELSE Continue(p, [c EXCEPT !.pc = "tx"])

\* lines 23-33: the request arrives, the user row is read
CreateStart(p, a) ==
  /\ Free(p)
  /\ Len(transactions) + CreatesInFlight < MaxTx
  /\ IF a.userId \notin DOMAIN users
       THEN Respond(p, "createTransaction", ErrUserNotFound)
       ELSE Continue(p,
              [op |-> "createTransaction", pc |-> "ticketType", args |-> a,
               user |-> [points |-> points[a.userId]],
               ticketType |-> [availableSeats |-> 0, price |-> 0],
               organizerId |-> NoId, couponId |-> NoId, voucherId |-> NoId,
               discountAmount |-> 0])
  /\ UNCHANGED <<dbvars, now, outbox>>

\* the checks without the one on event.published
CreateReadTicketTypeDrafts(p) ==
  LET c == call[p]
      a == c.args
      tt == a.ticketTypeId
      fail(e) == Respond(p, c.op, e)
  IN
  /\ At(p, "createTransaction", "ticketType")
  /\ IF tt \notin TicketTypeIds THEN fail(ErrTicketTypeNotFound)
     ELSE IF TicketTypes[tt].deleted THEN fail(ErrTicketTypeNotFound)
     ELSE LET ev == Events[TicketTypes[tt].eventId] IN
       IF ev.id # a.eventId THEN fail(ErrWrongEvent)
       ELSE IF ev.endDate < now THEN fail(ErrEventExpired)
       ELSE IF availableSeats[tt] < a.quantity THEN fail(ErrNotEnoughSeats)
       ELSE IF a.pointsUsed > 0 /\ c.user.points < a.pointsUsed
         THEN fail(ErrInsufficientPoints)
       ELSE LET c1 == [c EXCEPT
                        !.ticketType = [availableSeats |-> availableSeats[tt],
                                        price |-> TicketTypes[tt].price],
                        !.organizerId = ev.organizerId]
            IN IF a.couponCode # NoCode
                 THEN Continue(p, [c1 EXCEPT !.pc = "coupon"])
               ELSE IF a.voucherCode # NoCode
                 THEN Continue(p, [c1 EXCEPT !.pc = "voucher"])
               ELSE Priced(p, c1)
  /\ UNCHANGED <<dbvars, now, outbox>>

\* lines 35-69: the ticket type row is read with its event, then the checks
CreateReadTicketType(p) ==
  LET c == call[p]
      a == c.args
      tt == a.ticketTypeId
      fail(e) == Respond(p, c.op, e)
  IN
  /\ At(p, "createTransaction", "ticketType")
  /\ IF tt \notin TicketTypeIds THEN fail(ErrTicketTypeNotFound)
     ELSE IF TicketTypes[tt].deleted THEN fail(ErrTicketTypeNotFound)
     ELSE LET ev == Events[TicketTypes[tt].eventId] IN
       IF ev.id # a.eventId THEN fail(ErrWrongEvent)
       ELSE IF ~events[ev.id].published THEN fail(ErrNotPublished)
       ELSE IF ev.endDate < now THEN fail(ErrEventExpired)
       ELSE IF availableSeats[tt] < a.quantity THEN fail(ErrNotEnoughSeats)
       ELSE IF a.pointsUsed > 0 /\ c.user.points < a.pointsUsed
         THEN fail(ErrInsufficientPoints)
       ELSE LET c1 == [c EXCEPT
                        !.ticketType = [availableSeats |-> availableSeats[tt],
                                        price |-> TicketTypes[tt].price],
                        !.organizerId = ev.organizerId]
            IN IF a.couponCode # NoCode
                 THEN Continue(p, [c1 EXCEPT !.pc = "coupon"])
               ELSE IF a.voucherCode # NoCode
                 THEN Continue(p, [c1 EXCEPT !.pc = "voucher"])
               ELSE Priced(p, c1)
  /\ UNCHANGED <<dbvars, now, outbox>>

\* a validation that consumes the coupon as soon as it has resolved it
CreateValidateCouponMarking(p) ==
  LET c == call[p]
      a == c.args
      r == validateCoupon(DB, a.couponCode, a.userId, now)
  IN
  /\ At(p, "createTransaction", "coupon")
  /\ IF r.error # OK
       THEN Respond(p, c.op, r.error) /\ UNCHANGED userCoupons
       ELSE /\ userCoupons' =
                 [userCoupons EXCEPT ![<<a.userId, r.grant>>].USED = @ + 1]
            /\ LET c1 == [c EXCEPT !.couponId = r.grant,
                                   !.discountAmount =
                                     @ + coupons[r.grant].discountValue]
               IN IF a.voucherCode # NoCode
                    THEN Continue(p, [c1 EXCEPT !.pc = "voucher"])
                    ELSE Priced(p, c1)
  /\ UNCHANGED <<availableSeats, points, transactions, userVouchers,
                 restoreLog, users, coupons, events, now, outbox>>

\* lines 77-82
CreateValidateCoupon(p) ==
  LET c == call[p]
      a == c.args
      r == validateCoupon(DB, a.couponCode, a.userId, now)
  IN
  /\ At(p, "createTransaction", "coupon")
  /\ IF r.error # OK THEN Respond(p, c.op, r.error)
     ELSE LET c1 == [c EXCEPT !.couponId = r.grant,
                              !.discountAmount = @ + coupons[r.grant].discountValue]
          IN IF a.voucherCode # NoCode
               THEN Continue(p, [c1 EXCEPT !.pc = "voucher"])
               ELSE Priced(p, c1)
  /\ UNCHANGED <<dbvars, now, outbox>>

\* lines 84-101
CreateValidateVoucher(p) ==
  LET c == call[p]
      a == c.args
      r == validateVoucher(DB, a.voucherCode, a.eventId, a.userId, now)
  IN
  /\ At(p, "createTransaction", "voucher")
  /\ IF r.error # OK THEN Respond(p, c.op, r.error)
     ELSE Priced(p, [c EXCEPT !.voucherId = r.grant,
                              !.discountAmount = @ + Vouchers[r.grant].discountValue])
  /\ UNCHANGED <<dbvars, now, outbox>>

\* lines 103-193: the unit of work
CreateCommit(p, fault) ==
  LET c == call[p]
      r == createTransactionTx(DB, c, fault, now)
  IN
  /\ At(p, "createTransaction", "tx")
  /\ Write(r.db)
  /\ Respond(p, c.op, r.result)
  /\ UNCHANGED <<now, outbox>>

\* ------------------------------------------------------- restoreResources
\* a confirmation that gives the resources back as a reversal does
ReversingAndDone == {"REJECTED", "EXPIRED", "CANCELLED", "DONE"}

Reversing == {"REJECTED", "EXPIRED", "CANCELLED"}

UpdateFaults ==
  {"none", "transaction.update", "ticketType.update", "user.update",
   "userCoupon.updateMany", "userVoucher.updateMany"}

\* a reversal that leaves the usage records USED
RevertKept(row) == row

\* updateMany where status USED, data status ACTIVE (lines 774-781, 785-792)
Revert(row) == [USED |-> 0, ACTIVE |-> row.ACTIVE + row.USED]

\* a reversal that gives the seats and the usage records back, not the points
restoreResourcesNoPoints(db, transaction, fault) ==
  LET u  == transaction.userId
      d1 == [db EXCEPT !.availableSeats[transaction.ticketTypeId] =
                          @ + transaction.quantity]
      d3 == IF transaction.couponId # NoId
              THEN [d1 EXCEPT !.userCoupons[<<u, transaction.couponId>>] = Revert(@)]
              ELSE d1
      d4 == IF transaction.voucherId # NoId
              THEN [d3 EXCEPT !.userVouchers[<<u, transaction.voucherId>>] = Revert(@)]
              ELSE d3
  IN  IF fault \in {"ticketType.update", "user.update", "userCoupon.updateMany",
                    "userVoucher.updateMany"}
        THEN [db |-> db, ok |-> FALSE]
        ELSE [db |-> [d4 EXCEPT !.restoreLog[transaction.id] = @ + 1], ok |-> TRUE]

\* lines 745-794, on the transaction row that the caller read before the
\* unit of work; answers the database and whether a statement failed
restoreResources(db, transaction, fault) ==
  LET u  == transaction.userId
      d1 == [db EXCEPT !.availableSeats[transaction.ticketTypeId] =
                          @ + transaction.quantity]
      d2 == IF transaction.pointsUsed > 0
              THEN [d1 EXCEPT !.points[u] = @ + transaction.pointsUsed] ELSE d1
      d3 == IF transaction.couponId # NoId
              THEN [d2 EXCEPT !.userCoupons[<<u, transaction.couponId>>] = Revert(@)]
              ELSE d2
      d4 == IF transaction.voucherId # NoId
              THEN [d3 EXCEPT !.userVouchers[<<u, transaction.voucherId>>] = Revert(@)]
              ELSE d3
  IN  IF fault = "ticketType.update" THEN [db |-> db, ok |-> FALSE]
      ELSE IF fault = "user.update" /\ transaction.pointsUsed > 0
        THEN [db |-> d1, ok |-> FALSE]
      ELSE IF fault = "userCoupon.updateMany" /\ transaction.couponId # NoId
        THEN [db |-> d2, ok |-> FALSE]
      ELSE IF fault = "userVoucher.updateMany" /\ transaction.voucherId # NoId
        THEN [db |-> d3, ok |-> FALSE]
      ELSE [db |-> [d4 EXCEPT !.restoreLog[transaction.id] = @ + 1], ok |-> TRUE]

\* ------------------------------------------------- updateTransactionStatus
Notified == {"DONE", "REJECTED"}

\* the failures of the mail service and of the commit of the unit of work
NotifyFaults == {"none", "mail", "commit"}

\* lines 797-828: the mails that leave; the whole body is in a try whose
\* catch logs and does not throw, so a failure sends nothing and is not seen
sendTransactionStatusNotification(transaction, status, fault) ==
  IF fault = "mail" THEN {} ELSE {<<transaction.id, status>>}

\* a unit of work in which a failure of the mail service is thrown on
updateTransactionStatusTxThrowing(db, c, fault, t) ==
  LET d1 == [db EXCEPT !.transactions[c.id].status = c.status,
                       !.transactions[c.id].updatedAt = t]
      r  == IF c.status \in Reversing
              THEN restoreResources(d1, c.transaction, fault)
              ELSE [db |-> d1, ok |-> TRUE]
      mails == IF c.status \in Notified
                 THEN sendTransactionStatusNotification(c.transaction, c.status,
                                                        fault)
                 ELSE {}
      out(x, sent) == [db |-> x.db, result |-> x.result, mails |-> sent]
  IN  IF fault = "transaction.update"
        THEN out(Rollback(db, db, ErrDatabase), {})
      ELSE IF ~r.ok THEN out(Rollback(db, r.db, ErrDatabase), {})
      ELSE IF fault = "mail" /\ c.status \in Notified
        THEN out(Rollback(db, r.db, ErrDatabase), {})
      ELSE IF fault = "commit" THEN out(Rollback(db, r.db, ErrDatabase), mails)
      ELSE out([db |-> r.db, result |-> OK], mails)

\* lines 367-407: the callback of prisma.$transaction; every update of a
\* transaction row stamps its updatedAt, the column that line 653 reads; the
\* notification is awaited inside the callback (lines 402-404), the commit
\* follows the return of the callback
updateTransactionStatusTx(db, c, fault, t) ==
  LET d1 == [db EXCEPT !.transactions[c.id].status = c.status,
                       !.transactions[c.id].updatedAt = t]
      r  == IF c.status \in Reversing
              THEN restoreResources(d1, c.transaction, fault)
              ELSE [db |-> d1, ok |-> TRUE]
      mails == IF c.status \in Notified
                 THEN sendTransactionStatusNotification(c.transaction, c.status,
                                                        fault)
                 ELSE {}
      out(x, sent) == [db |-> x.db, result |-> x.result, mails |-> sent]
  IN  IF fault = "transaction.update"
        THEN out(Rollback(db, db, ErrDatabase), {})
      ELSE IF ~r.ok THEN out(Rollback(db, r.db, ErrDatabase), {})
      ELSE IF fault = "commit" THEN out(Rollback(db, r.db, ErrDatabase), mails)
      ELSE out([db |-> r.db, result |-> OK], mails)

\* the columns of the row read at line 356 that the call uses after the read
Read(row) ==
  [id |-> row.id, status |-> row.status, userId |-> row.userId,
   ticketTypeId |-> row.ticketTypeId,
   quantity |-> row.quantity, pointsUsed |-> row.pointsUsed,
   couponId |-> row.couponId, voucherId |-> row.voucherId]

\* checks whose read of the row does not filter on the organizer
updateTransactionStatusChecksAnyOrganizer(rows, id, status, options) ==
  LET organizerId == options.organizerId
      isAutoProcess == options.isAutoProcess
      found == id \in 1..Len(rows)
  IN  IF ~isAutoProcess /\ organizerId = NoId THEN ErrOrganizerRequired
      ELSE IF ~found THEN ErrTransactionNotFound
      ELSE IF ~isValidStatusTransition(rows[id].status, status)
        THEN ErrInvalidTransition
      ELSE OK

\* lines 345-365: the options, the read of the row, the transition check;
\* OK when the call goes on to its unit of work, the error thrown otherwise
updateTransactionStatusChecks(rows, id, status, options) ==
  LET organizerId == options.organizerId
      isAutoProcess == options.isAutoProcess
      found == /\ id \in 1..Len(rows)
               /\ isAutoProcess \/ rows[id].organizerId = organizerId
  IN  IF ~isAutoProcess /\ organizerId = NoId THEN ErrOrganizerRequired
      ELSE IF ~found THEN ErrTransactionNotFound
      ELSE IF ~isValidStatusTransition(rows[id].status, status)
        THEN ErrInvalidTransition
      ELSE OK

UpdateStart(p, id, status, options) ==
  LET op == "updateTransactionStatus"
      r == updateTransactionStatusChecks(transactions, id, status, options)
  IN
  /\ Free(p)
  /\ IF r # OK THEN Respond(p, op, r)
     ELSE Continue(p, [op |-> op, pc |-> "tx", id |-> id, status |-> status,
                       transaction |-> Read(transactions[id])])
  /\ UNCHANGED <<dbvars, now, outbox>>

UpdateCommit(p, fault) ==
  LET c == call[p]
      r == updateTransactionStatusTx(DB, c, fault, now)
  IN
  /\ At(p, "updateTransactionStatus", "tx")
  /\ Write(r.db)
  /\ outbox' = outbox \cup r.mails
  /\ Respond(p, c.op, r.result)
  /\ UNCHANGED now

\* ------------------------------------------------------ uploadPaymentProof
\* a payment window that closes at the deadline, not after it
UploadStartEarly(p, id, userId, paymentProof) ==
  LET op == "uploadPaymentProof"
      found == id \in 1..Len(transactions) /\ transactions[id].userId = userId
  IN
  /\ Free(p)
  /\ IF ~found THEN Respond(p, op, ErrTransactionNotFound)
     ELSE IF transactions[id].status # "WAITING_FOR_PAYMENT"
       THEN Respond(p, op, ErrNotWaitingForPayment)
     ELSE IF now >= transactions[id].expiresAt
       THEN Respond(p, op, ErrUploadExpired)
     ELSE Continue(p, [op |-> op, pc |-> "update", id |-> id,
                       paymentProof |-> paymentProof])
  /\ UNCHANGED <<dbvars, now, outbox>>

\* lines 415-437: the read of the row and the checks
UploadStart(p, id, userId, paymentProof) ==
  LET op == "uploadPaymentProof"
      found == id \in 1..Len(transactions) /\ transactions[id].userId = userId
  IN
  /\ Free(p)
  /\ IF ~found THEN Respond(p, op, ErrTransactionNotFound)
     ELSE IF transactions[id].status # "WAITING_FOR_PAYMENT"
       THEN Respond(p, op, ErrNotWaitingForPayment)
     ELSE IF now > transactions[id].expiresAt
       THEN Respond(p, op, ErrUploadExpired)
     ELSE IF ~isValidStatusTransition(transactions[id].status,
                                      "WAITING_FOR_CONFIRMATION")
       THEN Respond(p, op, ErrInvalidTransition)
     ELSE Continue(p, [op |-> op, pc |-> "update", id |-> id,
                       paymentProof |-> paymentProof])
  /\ UNCHANGED <<dbvars, now, outbox>>

\* an upload that also marks the amount as settled
UploadCommitSettling(p, fault) ==
  LET c == call[p] IN
  /\ At(p, "uploadPaymentProof", "update")
  /\ IF fault
       THEN /\ Respond(p, c.op, ErrDatabase)
            /\ UNCHANGED transactions
       ELSE /\ Respond(p, c.op, OK)
            /\ transactions' =
                 [transactions EXCEPT
                    ![c.id].paymentProof = c.paymentProof,
                    ![c.id].status = "WAITING_FOR_CONFIRMATION",
                    ![c.id].finalAmount = 0,
                    ![c.id].updatedAt = now]
  /\ UNCHANGED <<availableSeats, points, userCoupons, userVouchers,
                 restoreLog, users, coupons, events, now, outbox>>

\* lines 439-445: one update by id, outside any unit of work
UploadCommit(p, fault) ==
  LET c == call[p] IN
  /\ At(p, "uploadPaymentProof", "update")
  /\ IF fault
       THEN /\ Respond(p, c.op, ErrDatabase)
            /\ UNCHANGED transactions
       ELSE /\ Respond(p, c.op, OK)
            /\ transactions' =
                 [transactions EXCEPT
                    ![c.id].paymentProof = c.paymentProof,
                    ![c.id].status = "WAITING_FOR_CONFIRMATION",
                    ![c.id].updatedAt = now]
  /\ UNCHANGED <<availableSeats, points, userCoupons, userVouchers,
                 restoreLog, users, coupons, events, now, outbox>>

\* ------------------------------------------------------------ the sweeper
ThreeDays == 72   \* 3 * 24 * 60 * 60 * 1000 ms, in hours

\* a scan that also takes the bookings whose deadline is this very instant
getExpiredTransactionsAtDeadline(rows, t) ==
  {i \in 1..Len(rows) : /\ rows[i].status = "WAITING_FOR_PAYMENT"
                         /\ rows[i].expiresAt <= t}

\* a scan that looks for the bookings that await confirmation
getExpiredTransactionsPaid(rows, t) ==
  {i \in 1..Len(rows) : /\ rows[i].status = "WAITING_FOR_CONFIRMATION"
                         /\ rows[i].expiresAt < t}

\* lines 636-644 (no transaction row is ever soft-deleted here)
getExpiredTransactions(rows, t) ==
  {i \in 1..Len(rows) : /\ rows[i].status = "WAITING_FOR_PAYMENT"
                         /\ rows[i].expiresAt < t}

\* a scan that measures the three days from the payment deadline
getPendingTransactionsByDeadline(rows, t) ==
  LET threeDaysAgo == t - ThreeDays IN
  {i \in 1..Len(rows) : /\ rows[i].status = "WAITING_FOR_CONFIRMATION"
                         /\ rows[i].expiresAt < threeDaysAgo}

\* lines 647-657
getPendingTransactions(rows, t) ==
  LET threeDaysAgo == t - ThreeDays IN
  {i \in 1..Len(rows) : /\ rows[i].status = "WAITING_FOR_CONFIRMATION"
                         /\ rows[i].updatedAt < threeDaysAgo}

AutoProcess == [organizerId |-> NoId, isAutoProcess |-> TRUE]

\* section 4.5: a run of the sweeper takes one of the two scans and drives
\* every booking it selected to the scan's target status
SweepTarget == [expired |-> "EXPIRED", pending |-> "CANCELLED"]

SweepRest(p, c, rest) ==
  IF rest = {} THEN Respond(p, "sweep", OK)
  ELSE Continue(p, [c EXCEPT !.pc = "drive", !.queue = rest])

SweepScan(p, scan) ==
  LET selected == IF scan = "expired"
                    THEN getExpiredTransactions(transactions, now)
                    ELSE getPendingTransactions(transactions, now)
  IN
  /\ Free(p)
  /\ SweepRest(p, [op |-> "sweep", pc |-> "drive", status |-> SweepTarget[scan],
                    selected |-> selected, queue |-> selected, id |-> NoId,
                    transaction |-> <<>>], selected)
  /\ UNCHANGED <<dbvars, now, outbox>>

\* updateTransactionStatus(id, status, {isAutoProcess: true}) up to its unit
\* of work; a booking that is refused is left and the run goes on
SweepDrive(p, id) ==
  LET c == call[p]
      r == updateTransactionStatusChecks(transactions, id, c.status, AutoProcess)
  IN
  /\ At(p, "sweep", "drive")
  /\ id \in c.queue
  /\ IF r # OK THEN SweepRest(p, c, c.queue \ {id})
     ELSE Continue(p, [c EXCEPT !.pc = "tx", !.id = id,
                                !.transaction = Read(transactions[id])])
  /\ UNCHANGED <<dbvars, now, outbox>>

SweepCommit(p, fault) ==
  LET c == call[p]
      r == updateTransactionStatusTx(DB, c, fault, now)
  IN
  /\ At(p, "sweep", "tx")
  /\ Write(r.db)
  /\ outbox' = outbox \cup r.mails
  /\ SweepRest(p, c, c.queue \ {c.id})
  /\ UNCHANGED now

\* ---------------------------------------------------------------- the clock
\* the instants at which the clock is read: the hours after the start and
\* the hours after a jump of three days
Times == (0..MaxNow) \cup (ThreeDays..(ThreeDays + MaxNow))

Tick ==
  /\ response = NoResponse
  /\ \E t \in Times : t > now /\ now' = t
  /\ UNCHANGED <<dbvars, outbox, call, response>>

\* the clock where it is followed one hour further, to the instant at which
\* a proof uploaded in the last hour before the jump is three days old; it
\* is read between calls, a call in flight ends within its hour
LaterTimes == Times \cup {ThreeDays + MaxNow + 1}

TickOn ==
  /\ response = NoResponse
  /\ \A p \in Procs : Free(p)
  /\ \E t \in LaterTimes : t > now /\ now' = t
  /\ UNCHANGED <<dbvars, outbox, call, response>>

\* ------------------------------------- getTransaction, getTransactionById
\* lines 196-206: only the rows on the caller's side of the role; a role
\* that is neither CUSTOMER nor ORGANIZER adds no condition to the query
\* (no code under src/ sets deletedAt, every stored row has deletedAt null)
getTransaction(rows, userId, role) ==
  {rows[i] : i \in {j \in DOMAIN rows :
     /\ role = "CUSTOMER" => rows[j].userId = userId
     /\ role = "ORGANIZER" => rows[j].organizerId = userId}}

\* lines 257-267, 329-333: the row of that id under the same conditions
getTransactionById(rows, id, userId, role) ==
  {r \in getTransaction(rows, userId, role) : r.id = id}

QueryResponse(op, found, userId, role) ==
  [op |-> op, result |-> OK, rows |-> found, userId |-> userId, role |-> role]

GetTransaction(p, userId, role) ==
  /\ Free(p)
  /\ call' = [call EXCEPT ![p] = Done]
  /\ response' = QueryResponse("getTransaction",
                    getTransaction(transactions, userId, role), userId, role)
  /\ UNCHANGED <<dbvars, now, outbox>>

GetTransactionById(p, id, userId, role) ==
  LET found == getTransactionById(transactions, id, userId, role) IN
  /\ Free(p)
  /\ IF found = {}
       THEN Respond(p, "getTransactionById", ErrTransactionNotFound)
       ELSE /\ call' = [call EXCEPT ![p] = Done]
            /\ response' = QueryResponse("getTransactionById", found, userId,
                                         role)
  /\ UNCHANGED <<dbvars, now, outbox>>

\* ------------------------------------------- unpublishEvent, deleteEvent
ErrEventNotFound == "Event not found"
ErrEventHasDone(op) ==
  IF op = "deleteEvent"
    THEN "Cannot delete event with completed transactions"
    ELSE "Cannot unpublish event with completed transactions"

EventOps == {"unpublishEvent", "deleteEvent"}

\* part_002 lines 240-244, 306-310: findFirst by id, organizer, not deleted
WithdrawStart(p, op, id, organizerId) ==
  LET found == /\ id \in DOMAIN Events
               /\ Events[id].organizerId = organizerId
               /\ ~events[id].deleted
  IN
  /\ Free(p)
  /\ op \in EventOps
  /\ IF ~found THEN Respond(p, op, ErrEventNotFound)
     ELSE Continue(p, [op |-> op, pc |-> "count", id |-> id])
  /\ UNCHANGED <<dbvars, now, outbox>>

\* lines 246-257, 312-323: the DONE transactions of the event are counted
WithdrawCount(p) ==
  LET c == call[p]
      doneTransactions ==
        Cardinality({i \in 1..Len(transactions) :
                       /\ transactions[i].eventId = c.id
                       /\ transactions[i].status = "DONE"})
  IN
  /\ c.op \in EventOps /\ c.pc = "count" /\ response = NoResponse
  /\ IF doneTransactions > 0 THEN Respond(p, c.op, ErrEventHasDone(c.op))
     ELSE Continue(p, [c EXCEPT !.pc = "update"])
  /\ UNCHANGED <<dbvars, now, outbox>>

\* lines 259-262, 325-328: one update by id
WithdrawCommit(p) ==
  LET c == call[p] IN
  /\ c.op \in EventOps /\ c.pc = "update" /\ response = NoResponse
  /\ events' = IF c.op = "deleteEvent"
                 THEN [events EXCEPT ![c.id].deleted = TRUE]
                 ELSE [events EXCEPT ![c.id].published = FALSE]
  /\ Respond(p, c.op, OK)
  /\ UNCHANGED <<availableSeats, points, transactions, userCoupons,
                 userVouchers, restoreLog, users, coupons, now, outbox>>

\* ---------------------------------------------------------------- register
ErrEmailRegistered == "Email already registered"
ErrInvalidReferral == "Invalid referral code"
ErrReferrerNotCustomer == "Referral code must be from a customer"
ErrSelfReferral == "You cannot use your own referral code"

ReferralReward == 10000      \* points credited to the referrer
WelcomeDiscount == 50000     \* discountValue of the welcome coupon
NinetyDays == 2160           \* 90 * 24 hours

WelcomeCode(id) == "WELCOME" \o ToString(id)

RegisterFaults ==
  {"none", "user.create", "user.update", "coupon.create", "userCoupon.create"}

\* checks that let a referral code through that no user holds
registerChecksAnyCode(rows, data) ==
  LET taken == {u \in DOMAIN rows : rows[u].email = data.email}
      referrers == {u \in DOMAIN rows : rows[u].referralCode = data.referralCode}
      none == [error |-> OK, referredById |-> NoId]
      fail(e) == [error |-> e, referredById |-> NoId]
  IN  IF taken # {} THEN fail(ErrEmailRegistered)
      ELSE IF data.role # "CUSTOMER" \/ data.referralCode = NoCode THEN none
      ELSE IF referrers = {} THEN none
      ELSE LET r == CHOOSE u \in referrers : TRUE IN
        IF rows[r].role # "CUSTOMER" THEN fail(ErrReferrerNotCustomer)
        ELSE IF rows[r].email = data.email THEN fail(ErrSelfReferral)
        ELSE [error |-> OK, referredById |-> r]

\* lines 17-61: the reads and the checks before the unit of work; answers
\* the error, or the id of the referrer (NoId without a referral)
registerChecks(rows, data) ==
  LET taken == {u \in DOMAIN rows : rows[u].email = data.email}
      referrers == {u \in DOMAIN rows : rows[u].referralCode = data.referralCode}
      none == [error |-> OK, referredById |-> NoId]
      fail(e) == [error |-> e, referredById |-> NoId]
  IN  IF taken # {} THEN fail(ErrEmailRegistered)
      ELSE IF data.role # "CUSTOMER" \/ data.referralCode = NoCode THEN none
      ELSE IF referrers = {} THEN fail(ErrInvalidReferral)
      ELSE LET r == CHOOSE u \in referrers : TRUE IN
        IF rows[r].role # "CUSTOMER" THEN fail(ErrReferrerNotCustomer)
        ELSE IF rows[r].email = data.email THEN fail(ErrSelfReferral)
        ELSE [error |-> OK, referredById |-> r]

\* a table of usage records with a line for every user and grant
Extended(table, userIds, grantIds) ==
  [k \in userIds \X grantIds |->
     IF k \in DOMAIN table THEN table[k] ELSE [USED |-> 0, ACTIVE |-> 0]]

\* lines 63-124: the callback of prisma.$transaction in register; the new
\* user gets the next id and no points, email is a unique column
registerTx(db, c, fault, t) ==
  LET id  == Cardinality(DOMAIN db.users) + 1
      cid == Cardinality(DOMAIN db.coupons) + 1
      ref == c.referredById
      row == [id |-> id, email |-> c.data.email, role |-> c.data.role,
              referralCode |-> IF c.data.role = "CUSTOMER" THEN RefCode(id)
                               ELSE NoCode,
              referredById |-> ref]
      d1 == [db EXCEPT
               !.users = @ @@ (id :> row),
               !.points = @ @@ (id :> 0),
               !.userCoupons = Extended(@, DOMAIN db.users \cup {id},
                                        DOMAIN db.coupons),
               !.userVouchers = Extended(@, DOMAIN db.users \cup {id},
                                         VoucherIds)]
      d2 == [d1 EXCEPT !.points[ref] = @ + ReferralReward]
      d3 == [d2 EXCEPT
               !.coupons = @ @@ (cid :>
                  [id |-> cid, code |-> WelcomeCode(id),
                   discountValue |-> WelcomeDiscount, usageLimit |-> 1,
                   startDate |-> t, endDate |-> t + NinetyDays,
                   deleted |-> FALSE]),
               !.userCoupons = Extended(@, DOMAIN d1.users,
                                        DOMAIN db.coupons \cup {cid})]
      d4 == [d3 EXCEPT !.userCoupons[<<id, cid>>].ACTIVE = @ + 1]
  IN  IF \E u \in DOMAIN db.users : db.users[u].email = c.data.email
        THEN Rollback(db, db, ErrDatabase)
      ELSE IF fault = "user.create" THEN Rollback(db, db, ErrDatabase)
      ELSE IF ref = NoId THEN [db |-> d1, result |-> OK]
      ELSE IF fault = "user.update" THEN Rollback(db, d1, ErrDatabase)
      ELSE IF fault = "coupon.create" THEN Rollback(db, d2, ErrDatabase)
      ELSE IF fault = "userCoupon.create" THEN Rollback(db, d3, ErrDatabase)
      ELSE [db |-> d4, result |-> OK]

RegistersInFlight == Cardinality({q \in Procs : call[q].op = "register"})

RegisterStart(p, data) ==
  LET r == registerChecks(users, data) IN
  /\ Free(p)
  /\ Cardinality(DOMAIN users) + RegistersInFlight < MaxUsers
  /\ IF r.error # OK THEN Respond(p, "register", r.error)
     ELSE Continue(p, [op |-> "register", pc |-> "tx", data |-> data,
                       referredById |-> r.referredById])
  /\ UNCHANGED <<dbvars, now, outbox>>

RegisterCommit(p, fault) ==
  LET c == call[p]
      r == registerTx(DB, c, fault, now)
  IN
  /\ At(p, "register", "tx")
  /\ Write(r.db)
  /\ Respond(p, c.op, r.result)
  /\ UNCHANGED <<now, outbox>>

\* the response reaches the client
Return ==
  /\ response # NoResponse
  /\ response' = NoResponse
  /\ outbox' = {}
  /\ UNCHANGED <<dbvars, now, call>>

\* ---------------------------------------------------------- specification
Init ==
  /\ availableSeats = [t \in TicketTypeIds |-> TicketTypes[t].totalSeats]
  /\ points = InitialPoints
  /\ transactions = <<>>
  /\ userCoupons = [k \in Users \X CouponIds |-> [USED |-> 0, ACTIVE |-> 0]]
  /\ userVouchers = [k \in Users \X VoucherIds |-> [USED |-> 0, ACTIVE |-> 0]]
  /\ restoreLog = <<>>
  /\ users = InitialUsers
  /\ coupons = Coupons
  /\ events = [e \in DOMAIN Events |->
                [published |-> Events[e].published, deleted |-> FALSE]]
  /\ now = 0
  /\ outbox = {}
  /\ call = [p \in Procs |-> Idle]
  /\ response = NoResponse

\* the requests that concurrent callers send in Spec: plain bookings, which
\* any caller may reverse, confirm or pay while other calls are in flight
\* (points and discounts are exercised by SeqSpec and CreateSpec)
CreateRequests ==
  [userId : {1}, eventId : {1}, ticketTypeId : {1},
   quantity : 1..MaxQuantity, pointsUsed : {0},
   couponCode : {NoCode}, voucherCode : {NoCode}]

StatusRequests == Statuses \cup {"REFUNDED"}

\* the sweeper, the owning organizer, no organizer, another organizer
UpdateOptions ==
  {[organizerId |-> NoId, isAutoProcess |-> TRUE],
   [organizerId |-> 10, isAutoProcess |-> FALSE],
   [organizerId |-> NoId, isAutoProcess |-> FALSE],
   [organizerId |-> 11, isAutoProcess |-> FALSE]}

Next ==
  \/ \E p \in Procs, a \in CreateRequests : CreateStart(p, a)
  \/ \E p \in Procs : CreateReadTicketType(p)
  \/ \E p \in Procs, fault \in CreateFaults : CreateCommit(p, fault)
  \/ \E p \in Procs, id \in 1..MaxTx, status \in StatusRequests,
        options \in UpdateOptions : UpdateStart(p, id, status, options)
  \/ \E p \in Procs, fault \in UpdateFaults : UpdateCommit(p, fault)
  \/ \E p \in Procs, id \in 1..MaxTx, userId \in Users :
       UploadStart(p, id, userId, "proof.png")
  \/ \E p \in Procs, fault \in BOOLEAN : UploadCommit(p, fault)
  \/ Return

Spec == Init /\ [][Next]_vars

\* ------------------------------------------ one caller, one call at a time
\* every request runs to its response before the next one is sent; the
\* requests range over both users, the discounts and the failures of the
\* database inside a unit of work
SeqRequests ==
  [userId : Users, eventId : {1}, ticketTypeId : {1},
   quantity : 1..MaxQuantity, pointsUsed : 0..MaxPointsUsed,
   couponCode : {NoCode, "SAVE"}, voucherCode : {NoCode, "VOUCH"}]

SeqNext ==
  \/ \E a \in SeqRequests : CreateStart(1, a)
  \/ CreateReadTicketType(1)
  \/ CreateValidateCoupon(1)
  \/ CreateValidateVoucher(1)
  \/ \E fault \in CreateFaults : CreateCommit(1, fault)
  \/ \E id \in 1..MaxTx, status \in StatusRequests, options \in UpdateOptions :
       UpdateStart(1, id, status, options)
  \/ \E fault \in UpdateFaults : UpdateCommit(1, fault)
  \/ \E id \in 1..MaxTx, userId \in Users : UploadStart(1, id, userId, "proof.png")
  \/ \E fault \in BOOLEAN : UploadCommit(1, fault)
  \/ Return

SeqSpec == Init /\ [][SeqNext]_vars

\* ------------------------------------- concurrent createTransaction calls
CreateNext ==
  \/ \E p \in Procs, a \in SeqRequests : CreateStart(p, a)
  \/ \E p \in Procs : CreateReadTicketType(p)
  \/ \E p \in Procs : CreateValidateCoupon(p)
  \/ \E p \in Procs : CreateValidateVoucher(p)
  \/ \E p \in Procs, fault \in CreateFaults : CreateCommit(p, fault)
  \/ Return

CreateSpec == Init /\ [][CreateNext]_vars

\* ------------------------------- two buyers race for the last seat (4.1, 8)
\* ticket type 2 has one seat; each caller sends one request for it
RaceRequests ==
  [userId : Users, eventId : {1}, ticketTypeId : {2}, quantity : {1},
   pointsUsed : 0..MaxPointsUsed, couponCode : {NoCode},
   voucherCode : {NoCode}]

RaceNext ==
  \/ \E p \in Procs, a \in RaceRequests :
       call[p].pc = "idle" /\ CreateStart(p, a)
  \/ \E p \in Procs : CreateReadTicketType(p)
  \/ \E p \in Procs : CreateCommit(p, "none")
  \/ Return

RaceSpec == Init /\ [][RaceNext]_vars

\* ------------------------------ one buyer after another applies a coupon
\* SAVE can be used once in all, TWICE twice; bookings are made, reversed by
\* the sweeper's kind of call and made again, one call at a time
CouponRequests ==
  [userId : Users, eventId : {1}, ticketTypeId : {1}, quantity : {1},
   pointsUsed : {0}, couponCode : {"SAVE", "TWICE"}, voucherCode : {NoCode}]

CouponNext ==
  \/ \E a \in CouponRequests : CreateStart(1, a)
  \/ CreateReadTicketType(1)
  \/ CreateValidateCoupon(1)
  \/ CreateCommit(1, "none")
  \/ \E id \in 1..MaxTx, status \in StatusRequests :
       UpdateStart(1, id, status, AutoProcess)
  \/ UpdateCommit(1, "none")
  \/ Return

CouponSpec == Init /\ [][CouponNext]_vars

\* ------------------------------------- bookings at every price (3, 4.2)
\* ticket type 1 costs 2, ticket type 3 is free; every mix of coupon, voucher
\* and points is requested, by two callers
PriceRequests ==
  [userId : Users, eventId : {1}, ticketTypeId : {1, 3},
   quantity : 1..MaxQuantity, pointsUsed : 0..MaxPointsUsed,
   couponCode : {NoCode, "SAVE"}, voucherCode : {NoCode, "VOUCH"}]

PriceNext ==
  \/ \E p \in Procs, a \in PriceRequests : CreateStart(p, a)
  \/ \E p \in Procs : CreateReadTicketType(p)
  \/ \E p \in Procs : CreateValidateCoupon(p)
  \/ \E p \in Procs : CreateValidateVoucher(p)
  \/ \E p \in Procs : CreateCommit(p, "none")
  \/ Return

PriceSpec == Init /\ [][PriceNext]_vars

\* ---------------------------------- requests that must be refused (4.4)
\* one call at a time; user 3 and ticket type 7 do not exist, ticket type 4
\* is soft-deleted, 5 belongs to the draft event 2, 6 to the ended event 3
ValidateRequests ==
  [userId : Users \cup {3}, eventId : DOMAIN Events,
   ticketTypeId : TicketTypeIds \cup {7}, quantity : 1..MaxQuantity,
   pointsUsed : 0..MaxPointsUsed, couponCode : {NoCode},
   voucherCode : {NoCode}]

ValidateNext ==
  \/ \E a \in ValidateRequests : CreateStart(1, a)
  \/ CreateReadTicketType(1)
  \/ \E fault \in CreateFaults : CreateCommit(1, fault)
  \/ Return

ValidateSpec == Init /\ [][ValidateNext]_vars

\* ------------------------------ deadlines: the buyer, the sweeper, the clock
\* one call at a time while the clock runs: user 1 books, either user sends
\* a payment proof, the sweeper runs either scan
SweepRequests ==
  [userId : {1}, eventId : {1}, ticketTypeId : {1}, quantity : {1},
   pointsUsed : 0..MaxPointsUsed, couponCode : {NoCode},
   voucherCode : {NoCode}]

SweepNext ==
  \/ \E a \in SweepRequests : CreateStart(1, a)
  \/ CreateReadTicketType(1)
  \/ CreateCommit(1, "none")
  \/ \E id \in 1..MaxTx, userId \in Users : UploadStart(1, id, userId, "proof.png")
  \/ \E fault \in BOOLEAN : UploadCommit(1, fault)
  \/ \E scan \in DOMAIN SweepTarget : SweepScan(1, scan)
  \/ \E id \in 1..MaxTx : SweepDrive(1, id)
  \/ SweepCommit(1, "none")
  \/ Tick
  \/ Return

SweepSpec == Init /\ [][SweepNext]_vars

\* ------------------------------- the organizer decides, the mail may fail
\* one call at a time: user 1 books and pays, the organizer confirms or
\* rejects; the mail service or the commit of the unit of work may fail
NotifyRequests ==
  [userId : {1}, eventId : {1}, ticketTypeId : {1}, quantity : 1..MaxQuantity,
   pointsUsed : 0..MaxPointsUsed, couponCode : {NoCode},
   voucherCode : {NoCode}]

Organizer == [organizerId |-> 10, isAutoProcess |-> FALSE]

NotifyNext ==
  \/ \E a \in NotifyRequests : CreateStart(1, a)
  \/ CreateReadTicketType(1)
  \/ CreateCommit(1, "none")
  \/ \E id \in 1..MaxTx : UploadStart(1, id, 1, "proof.png")
  \/ UploadCommit(1, FALSE)
  \/ \E id \in 1..MaxTx, status \in Statuses : UpdateStart(1, id, status, Organizer)
  \/ \E fault \in NotifyFaults : UpdateCommit(1, fault)
  \/ Return

NotifySpec == Init /\ [][NotifyNext]_vars

\* ----------------------------------- every code at every time (4.2)
\* one call at a time while the clock runs: codes that do not exist, are
\* deleted, not yet or no longer active, used up, used by the buyer; the
\* bookings are cancelled and the codes applied again
GrantRequests ==
  [userId : Users, eventId : {1}, ticketTypeId : {1}, quantity : {1},
   pointsUsed : {0}, couponCode : {NoCode, "SAVE", "TWICE", "LATER", "GONE"},
   voucherCode : {NoCode, "VOUCH", "OTHER"}]

GrantNext ==
  \/ \E a \in GrantRequests : CreateStart(1, a)
  \/ CreateReadTicketType(1)
  \/ CreateValidateCoupon(1)
  \/ CreateValidateVoucher(1)
  \/ CreateCommit(1, "none")
  \/ \E id \in 1..MaxTx : UpdateStart(1, id, "CANCELLED", AutoProcess)
  \/ UpdateCommit(1, "none")
  \/ Tick
  \/ Return

GrantSpec == Init /\ [][GrantNext]_vars

\* ------------------------------------------ bookings are listed and read
\* both buyers book; buyers, the organizer of the event, another organizer
\* and a caller whose role is neither of the two ask for the bookings
QueryRequests ==
  [userId : Users, eventId : {1}, ticketTypeId : {1}, quantity : {1},
   pointsUsed : {0}, couponCode : {NoCode}, voucherCode : {NoCode}]

Callers == Users \cup {10, 11}
Roles == {"CUSTOMER", "ORGANIZER", "ADMIN"}

QueryNext ==
  \/ \E a \in QueryRequests : CreateStart(1, a)
  \/ CreateReadTicketType(1)
  \/ CreateCommit(1, "none")
  \/ \E userId \in Callers, role \in Roles : GetTransaction(1, userId, role)
  \/ \E id \in 1..MaxTx, userId \in Callers, role \in Roles :
       GetTransactionById(1, id, userId, role)
  \/ Return

QuerySpec == Init /\ [][QueryNext]_vars

\* ------------------------------------ bookings of any quantity, over time
\* one call at a time while the clock runs; the service receives the
\* quantity as a number and the requests carry zero and a negative one too,
\* for a paid and for a free ticket type
Quantities == (0 - 1)..MaxQuantity

BookRequests ==
  [userId : Users, eventId : {1}, ticketTypeId : {1, 3},
   quantity : Quantities, pointsUsed : 0..MaxPointsUsed,
   couponCode : {NoCode}, voucherCode : {NoCode}]

BookNext ==
  \/ \E a \in BookRequests : CreateStart(1, a)
  \/ CreateReadTicketType(1)
  \/ \E fault \in CreateFaults : CreateCommit(1, fault)
  \/ Tick
  \/ Return

BookSpec == Init /\ [][BookNext]_vars

\* ------------------------------------------- accounts and their referrals
\* one call at a time: customers and organizers register, with and without
\* a referral code, under an email that is free or taken; customers book
\* with a welcome coupon, and bookings are cancelled
RegisterRequests ==
  [email : {Email(u) : u \in 1..MaxUsers}, role : {"CUSTOMER", "ORGANIZER"},
   referralCode : {NoCode, "NOPE"} \cup {RefCode(u) : u \in 1..MaxUsers}]

ReferralBookings ==
  [userId : 1..MaxUsers, eventId : {1}, ticketTypeId : {8}, quantity : {1},
   pointsUsed : 0..MaxPointsUsed,
   couponCode : {NoCode} \cup {WelcomeCode(u) : u \in 1..MaxUsers},
   voucherCode : {NoCode}]

ReferralNext ==
  \/ \E data \in RegisterRequests : RegisterStart(1, data)
  \/ \E fault \in RegisterFaults : RegisterCommit(1, fault)
  \/ \E a \in ReferralBookings : CreateStart(1, a)
  \/ CreateReadTicketType(1)
  \/ CreateValidateCoupon(1)
  \/ CreateCommit(1, "none")
  \/ \E id \in 1..MaxTx : UpdateStart(1, id, "CANCELLED", AutoProcess)
  \/ UpdateCommit(1, "none")
  \/ Return

ReferralSpec == Init /\ [][ReferralNext]_vars

\* ------------------------------ bookings and reversals that overlap
\* two callers book for user 1, with a point and with the coupon TWICE, and
\* reverse bookings the way the sweeper does, while other calls are in flight
OverlapRequests ==
  [userId : {1}, eventId : {1}, ticketTypeId : {1}, quantity : {1},
   pointsUsed : 0..MaxPointsUsed, couponCode : {NoCode, "TWICE"},
   voucherCode : {NoCode}]

OverlapNext ==
  \/ \E p \in Procs, a \in OverlapRequests : CreateStart(p, a)
  \/ \E p \in Procs : CreateReadTicketType(p)
  \/ \E p \in Procs : CreateValidateCoupon(p)
  \/ \E p \in Procs : CreateCommit(p, "none")
  \/ \E p \in Procs, id \in 1..MaxTx :
       UpdateStart(p, id, "CANCELLED", AutoProcess)
  \/ \E p \in Procs : UpdateCommit(p, "none")
  \/ Return

OverlapSpec == Init /\ [][OverlapNext]_vars

\* -------------------------- an event is withdrawn while its bookings move
\* a buyer books and pays, the organizer confirms, and the organizer (or
\* another one) unpublishes or deletes the event, all of it overlapping
WithdrawRequests ==
  [userId : {1}, eventId : {1}, ticketTypeId : {1}, quantity : {1},
   pointsUsed : {0}, couponCode : {NoCode}, voucherCode : {NoCode}]

WithdrawNext ==
  \/ \E p \in Procs, a \in WithdrawRequests : CreateStart(p, a)
  \/ \E p \in Procs : CreateReadTicketType(p)
  \/ \E p \in Procs : CreateCommit(p, "none")
  \/ \E p \in Procs, id \in 1..MaxTx : UploadStart(p, id, 1, "proof.png")
  \/ \E p \in Procs : UploadCommit(p, FALSE)
  \/ \E p \in Procs, id \in 1..MaxTx : UpdateStart(p, id, "DONE", Organizer)
  \/ \E p \in Procs : UpdateCommit(p, "none")
  \/ \E p \in Procs, op \in EventOps, organizerId \in {10, 11} :
       WithdrawStart(p, op, 1, organizerId)
  \/ \E p \in Procs : WithdrawCount(p)
  \/ \E p \in Procs : WithdrawCommit(p)
  \/ Return

WithdrawSpec == Init /\ [][WithdrawNext]_vars

\* ------------------------------ a proof arrives while the sweeper runs
\* caller 1 books and uploads the payment proof, caller 2 is the sweeper
\* with its expiry scan; the clock moves between any two steps
DeadlineNext ==
  \/ \E a \in SweepRequests : CreateStart(1, a)
  \/ CreateReadTicketType(1)
  \/ CreateCommit(1, "none")
  \/ \E id \in 1..MaxTx : UploadStart(1, id, 1, "proof.png")
  \/ UploadCommit(1, FALSE)
  \/ SweepScan(2, "expired")
  \/ \E id \in 1..MaxTx : SweepDrive(2, id)
  \/ SweepCommit(2, "none")
  \/ Tick
  \/ Return

DeadlineSpec == Init /\ [][DeadlineNext]_vars

\* ------------------------------------------ the sweeper keeps running
\* one call at a time: user 1 books and may upload a proof, the organizer
\* may confirm or reject; time advances and both scans of the sweeper run
\* again and again, and every call that has started goes on
LiveRequests ==
  [userId : {1}, eventId : {1}, ticketTypeId : {1}, quantity : {1},
   pointsUsed : {0}, couponCode : {NoCode}, voucherCode : {NoCode}]

LiveCreate ==
  \/ \E a \in LiveRequests : CreateStart(1, a)
  \/ CreateReadTicketType(1)
  \/ CreateCommit(1, "none")

LiveUpload ==
  \/ \E id \in 1..MaxTx : UploadStart(1, id, 1, "proof.png")
  \/ UploadCommit(1, FALSE)

LiveReview ==
  \/ \E id \in 1..MaxTx, status \in {"DONE", "REJECTED"} :
       UpdateStart(1, id, status, Organizer)
  \/ UpdateCommit(1, "none")

LiveSweep(scan) == SweepScan(1, scan)

LiveDrive ==
  \/ \E id \in 1..MaxTx : SweepDrive(1, id)
  \/ SweepCommit(1, "none")

LiveNext ==
  \/ LiveCreate
  \/ LiveUpload
  \/ LiveReview
  \/ \E scan \in DOMAIN SweepTarget : LiveSweep(scan)
  \/ LiveDrive
  \/ TickOn
  \/ Return

\* a call that has started goes on, and its response is delivered
LiveStep ==
  \/ LiveCreate
  \/ LiveUpload
  \/ LiveReview
  \/ LiveDrive
  \/ Return

LiveSpec ==
  /\ Init
  /\ [][LiveNext]_vars
  /\ SF_vars(TickOn)
  /\ \A scan \in DOMAIN SweepTarget : SF_vars(LiveSweep(scan))
  /\ WF_vars(LiveStep)

\* ================================================================ claims
Terminal == {"DONE", "REJECTED", "EXPIRED", "CANCELLED"}
TxIds == 1..Len(transactions)

\* the caller whose call completes in this step
Completes(p, op, pc) == At(p, op, pc) /\ call'[p] = Done

\* C1: for every ticket type, in every reachable state of concurrent
\* createTransaction and reversing updateTransactionStatus calls,
\* 0 <= availableSeats <= totalSeats.
CapacityConservation ==
  \A t \in TicketTypeIds :
    0 <= availableSeats[t] /\ availableSeats[t] <= TicketTypes[t].totalSeats

\* C2: with one seat left and two concurrent requests for one seat each,
\* every request that fails fails with the insufficient-capacity error, and
\* once both have returned exactly one booking exists and availableSeats is 0.
AtMostOneReservation ==
  /\ availableSeats[2] >= 0
  /\ response.op = "createTransaction" /\ response.result # OK
       => response.result = ErrNotEnoughSeats
  /\ (\A p \in Procs : call[p].pc = "done")
       => Len(transactions) = 1 /\ availableSeats[2] = 0

\* C3: every createTransaction that commits decrements availableSeats by its
\* quantity relative to the value at the time of the write, so that no
\* concurrent reservation's decrement is lost.
NoLostReservation ==
  [][\A p \in Procs :
       Completes(p, "createTransaction", "tx") /\ response'.result = OK
         => availableSeats'[call[p].args.ticketTypeId] =
              availableSeats[call[p].args.ticketTypeId] - call[p].args.quantity]_vars

\* C4: once the stored status of a transaction is DONE, REJECTED, EXPIRED or
\* CANCELLED, no step of any operation changes it.
TerminalAbsorbing ==
  [][\A i \in TxIds :
       transactions[i].status \in Terminal
         => transactions'[i].status = transactions[i].status]_vars

\* the cells of the transition table of section 4.4
TransitionTable ==
  {<<"WAITING_FOR_PAYMENT", "WAITING_FOR_CONFIRMATION">>,
   <<"WAITING_FOR_PAYMENT", "EXPIRED">>,
   <<"WAITING_FOR_PAYMENT", "CANCELLED">>,
   <<"WAITING_FOR_CONFIRMATION", "DONE">>,
   <<"WAITING_FOR_CONFIRMATION", "REJECTED">>,
   <<"WAITING_FOR_CONFIRMATION", "CANCELLED">>}

\* the caller may see the row: the sweeper, or the organizer who owns it
Visible(id, options) ==
  /\ id \in TxIds
  /\ \/ options.isAutoProcess
     \/ options.organizerId # NoId /\
        options.organizerId = transactions[id].organizerId

UpdateResponse(result) == [op |-> "updateTransactionStatus", result |-> result]

\* C5: updateTransactionStatus goes on to its write only if (the status it
\* read, newStatus) is a cell of the transition table; for every other pair,
\* same-state pairs and unknown status strings included, it answers
\* 'Invalid status transition' and changes nothing.
TransitionGuard ==
  /\ [](\A id \in TxIds, status \in StatusRequests, options \in UpdateOptions :
          Visible(id, options) =>
            updateTransactionStatusChecks(transactions, id, status, options) =
              IF <<transactions[id].status, status>> \in TransitionTable
                THEN OK ELSE ErrInvalidTransition)
  /\ [][/\ response' = UpdateResponse(ErrInvalidTransition) => UNCHANGED dbvars
        /\ \A p \in Procs :
             /\ Free(p) /\ call'[p].op = "updateTransactionStatus"
                  => /\ call'[p].transaction.status = transactions[call'[p].id].status
                     /\ <<transactions[call'[p].id].status, call'[p].status>>
                          \in TransitionTable
             /\ Completes(p, "updateTransactionStatus", "tx") /\ response'.result = OK
                  => /\ <<call[p].transaction.status, call[p].status>>
                          \in TransitionTable
                     /\ transactions'[call[p].id].status = call[p].status]_vars

TransitionGuardWitness ==
  /\ response = UpdateResponse(ErrInvalidTransition)
  /\ \E i \in TxIds : transactions[i].status \in Terminal
  /\ \E i \in TxIds : transactions[i].status = "WAITING_FOR_CONFIRMATION"

\* seats, points held by the bookings that have not been reversed
Live == {"WAITING_FOR_PAYMENT", "WAITING_FOR_CONFIRMATION", "DONE"}

LiveSeats(t) ==
  SumOver({i \in TxIds : transactions[i].ticketTypeId = t /\
                          transactions[i].status \in Live},
          [i \in TxIds |-> transactions[i].quantity])

LivePoints(u) ==
  SumOver({i \in TxIds : transactions[i].userId = u /\
                          transactions[i].status \in Live},
          [i \in TxIds |-> transactions[i].pointsUsed])

\* C6: when calls follow one another, a further updateTransactionStatus on a
\* booking already REJECTED, EXPIRED or CANCELLED answers 'Invalid status
\* transition', restoreResources has run exactly once for every such booking
\* and for no other, and seats and points balance: what is available plus
\* what live bookings hold is what there was.
ReversalOnce ==
  /\ [](/\ \A i \in TxIds :
             restoreLog[i] = IF transactions[i].status \in Reversing THEN 1 ELSE 0
        /\ \A t \in TicketTypeIds :
             availableSeats[t] + LiveSeats(t) = TicketTypes[t].totalSeats
        /\ \A u \in Users : points[u] + LivePoints(u) = InitialPoints[u]
        /\ \A id \in TxIds, status \in StatusRequests, options \in UpdateOptions :
             Visible(id, options) /\ transactions[id].status \in Reversing =>
               updateTransactionStatusChecks(transactions, id, status, options) =
                 ErrInvalidTransition)
  /\ [][response' = UpdateResponse(ErrInvalidTransition) => UNCHANGED dbvars]_vars

ReversalOnceWitness ==
  /\ response = UpdateResponse(ErrInvalidTransition)
  /\ \E i \in TxIds : /\ transactions[i].status \in Reversing
                      /\ transactions[i].pointsUsed > 0
                      /\ restoreLog[i] = 1
                      /\ availableSeats[transactions[i].ticketTypeId] =
                           TicketTypes[transactions[i].ticketTypeId].totalSeats
                      /\ points[transactions[i].userId] =
                           InitialPoints[transactions[i].userId]

\* C7: restoreResources takes effect at most once per transaction, also when
\* two reversing updateTransactionStatus calls run concurrently on it.
RestoredAtMostOnce == \A i \in TxIds : restoreLog[i] <= 1

\* C8: a successful updateTransactionStatus to REJECTED, EXPIRED or CANCELLED
\* writes the status, adds quantity to availableSeats, adds pointsUsed to the
\* buyer's points and turns the buyer's USED usage records of the booking's
\* coupon and voucher ACTIVE, all in one step; a failed one changes nothing;
\* and no other step restores.
ReversalAtomic ==
  [][/\ \A p \in Procs :
          Completes(p, "updateTransactionStatus", "tx") =>
            LET c == call[p]
                row == transactions[c.id]
                u == row.userId
                uc == <<u, row.couponId>>
                uv == <<u, row.voucherId>>
            IN  IF response'.result # OK THEN UNCHANGED dbvars
                ELSE IF c.status \notin Reversing
                  THEN UNCHANGED <<availableSeats, points, userCoupons,
                                   userVouchers, restoreLog>>
                ELSE
                  /\ transactions'[c.id].status = c.status
                  /\ availableSeats'[row.ticketTypeId] =
                       availableSeats[row.ticketTypeId] + row.quantity
                  /\ points'[u] = points[u] + row.pointsUsed
                  /\ row.couponId # NoId =>
                       userCoupons'[uc] =
                         [USED |-> 0,
                          ACTIVE |-> userCoupons[uc].ACTIVE + userCoupons[uc].USED]
                  /\ row.voucherId # NoId =>
                       userVouchers'[uv] =
                         [USED |-> 0,
                          ACTIVE |-> userVouchers[uv].ACTIVE + userVouchers[uv].USED]
     /\ \A i \in TxIds :
          \/ restoreLog'[i] # restoreLog[i]
          \/ transactions'[i].status \in Reversing /\
             transactions[i].status \notin Reversing
          => /\ response' = UpdateResponse(OK)
             /\ restoreLog'[i] = restoreLog[i] + 1
             /\ transactions'[i].status \in Reversing]_vars

ReversalAtomicWitness ==
  /\ response = UpdateResponse(OK)
  /\ \E i \in TxIds : /\ transactions[i].status \in Reversing
                      /\ transactions[i].pointsUsed > 0
                      /\ transactions[i].couponId # NoId
                      /\ transactions[i].voucherId # NoId
                      /\ userCoupons[<<transactions[i].userId,
                                       transactions[i].couponId>>].ACTIVE = 1
                      /\ points[transactions[i].userId] = 1

\* C9: a createTransaction that fails, at a validation or anywhere inside its
\* unit of work, leaves availableSeats, points, the usage records and the
\* transaction table exactly as they were before the step.
CreateAllOrNothing ==
  [][response'.op = "createTransaction" /\ response'.result # OK
       => UNCHANGED dbvars]_vars

\* a create has failed inside its unit of work while another booking stands
CreateAllOrNothingWitness ==
  /\ response.op = "createTransaction"
  /\ response.result \in {ErrDatabase, ErrRecordNotFound}
  /\ Len(transactions) = 1

\* C10: no user's points balance is ever negative, also when one buyer sends
\* several createTransaction requests with pointsUsed concurrently.
PointsNonNegative == \A u \in Users : points[u] >= 0

\* C11: for every coupon and every voucher, the number of usage records with
\* status USED never exceeds the grant's usageLimit, also when several users
\* apply the same code in concurrent createTransaction calls.
UsageLimitRespected ==
  /\ \A c \in CouponIds : UsedCount(userCoupons, c) <= Coupons[c].usageLimit
  /\ \A v \in VoucherIds : UsedCount(userVouchers, v) <= Vouchers[v].usageLimit

\* C12: for every user and every grant there is at most one usage record
\* with status USED, also when the same user sends two createTransaction
\* requests with the same code concurrently.
OneUsedPerUser ==
  /\ \A u \in Users, c \in CouponIds : userCoupons[<<u, c>>].USED <= 1
  /\ \A u \in Users, v \in VoucherIds : userVouchers[<<u, v>>].USED <= 1

\* user u has a booking with coupon c whose status is in S
Applied(u, c, S) ==
  \E i \in TxIds : /\ transactions[i].userId = u
                    /\ transactions[i].couponId = c
                    /\ transactions[i].status \in S

\* C13: while a user has a non-reversed booking that applied coupon C, the
\* coupon validation of a further createTransaction by that user with C
\* answers the already-used error; once that booking is CANCELLED, REJECTED
\* or EXPIRED the user's usage record for C is ACTIVE and, C being within its
\* window and limit, the validation of a new createTransaction passes.
SingleUseCoupon ==
  \A u \in Users, c \in CouponIds :
    LET v == validateCoupon(DB, Coupons[c].code, u, now) IN
    /\ Applied(u, c, Live) => v.error = ErrCouponUsed
    /\ Applied(u, c, Reversing) /\ ~Applied(u, c, Live) =>
         /\ userCoupons[<<u, c>>].USED = 0
         /\ userCoupons[<<u, c>>].ACTIVE >= 1
         /\ UsedCount(userCoupons, c) < Coupons[c].usageLimit =>
              v = [error |-> OK, grant |-> c]

\* C13 as amended: the further createTransaction is refused with the
\* usage-limit error when the coupon's USED records have reached its
\* usageLimit (its own record included), with the already-used error
\* otherwise; the rest as in C13.
SingleUseCouponOrLimit ==
  \A u \in Users, c \in CouponIds :
    LET v == validateCoupon(DB, Coupons[c].code, u, now) IN
    /\ Applied(u, c, Live) =>
         /\ userCoupons[<<u, c>>].USED = 1
         /\ v.error = IF UsedCount(userCoupons, c) >= Coupons[c].usageLimit
                        THEN ErrCouponLimit ELSE ErrCouponUsed
    /\ Applied(u, c, Reversing) /\ ~Applied(u, c, Live) =>
         /\ userCoupons[<<u, c>>].USED = 0
         /\ userCoupons[<<u, c>>].ACTIVE >= 1
         /\ UsedCount(userCoupons, c) < Coupons[c].usageLimit =>
              v = [error |-> OK, grant |-> c]

\* a buyer whose booking with TWICE was reversed has booked with it again,
\* and would now be told that the coupon is already used
SingleUseCouponWitness ==
  \E u \in Users :
    /\ Applied(u, 2, Reversing) /\ Applied(u, 2, Live)
    /\ userCoupons[<<u, 2>>] = [USED |-> 1, ACTIVE |-> 1]
    /\ validateCoupon(DB, "TWICE", u, now).error = ErrCouponUsed

\* the discount a stored booking was given for its coupon, for its voucher
CouponDiscount(row) ==
  IF row.couponId # NoId THEN Coupons[row.couponId].discountValue ELSE 0

VoucherDiscount(row) ==
  IF row.voucherId # NoId THEN Vouchers[row.voucherId].discountValue ELSE 0

\* C14: every stored transaction has totalAmount = unitPrice * quantity, at
\* the price of its ticket type, and finalAmount = max(0, totalAmount -
\* couponDiscount - voucherDiscount - pointsUsed): the two discounts are
\* added, with no cap between them.
Amounts ==
  \A i \in TxIds :
    LET row == transactions[i] IN
    /\ row.unitPrice = TicketTypes[row.ticketTypeId].price
    /\ row.totalAmount = row.unitPrice * row.quantity
    /\ row.finalAmount =
         Max(0, row.totalAmount - CouponDiscount(row) - VoucherDiscount(row)
                  - row.pointsUsed)

\* a paid booking with coupon, voucher and points, and a free one whose
\* discounts exceed its total
AmountsWitness ==
  /\ \E i \in TxIds : /\ transactions[i].couponId # NoId
                       /\ transactions[i].voucherId # NoId
                       /\ transactions[i].pointsUsed > 0
                       /\ transactions[i].totalAmount = 4
                       /\ transactions[i].finalAmount = 1
  /\ \E i \in TxIds : /\ transactions[i].unitPrice = 0
                       /\ transactions[i].pointsUsed > 0
                       /\ transactions[i].finalAmount = 0

\* what a request's codes are worth
CodeDiscount(a) ==
  SumOver({c \in CouponIds : Coupons[c].code = a.couponCode},
          [c \in CouponIds |-> Coupons[c].discountValue]) +
  SumOver({v \in VoucherIds : Vouchers[v].code = a.voucherCode},
          [v \in VoucherIds |-> Vouchers[v].discountValue])

\* C15: a request whose coupon, voucher and points add up to at least the
\* total price goes on to its unit of work only on a free offering, with
\* finalAmount = 0; on a paid offering it answers the invalid-amount error
\* and changes nothing, and that error is answered in no other case. So every
\* stored transaction on a paid offering has finalAmount > 0.
DiscountFloor ==
  /\ [](\A i \in TxIds :
          IF transactions[i].unitPrice > 0
            THEN transactions[i].finalAmount > 0
            ELSE transactions[i].finalAmount = 0)
  /\ [][\A p \in Procs :
          LET a == call[p].args
              price == TicketTypes[a.ticketTypeId].price
              covered == CodeDiscount(a) + a.pointsUsed >= price * a.quantity
          IN
          call[p].op = "createTransaction" /\ call[p].pc # "tx" =>
            /\ call'[p].pc = "tx" =>
                 /\ covered => price = 0
                 /\ finalAmount(call'[p]) = IF covered THEN 0
                      ELSE price * a.quantity - CodeDiscount(a) - a.pointsUsed
            /\ call'[p] = Done /\ response'.result = ErrFinalAmount =>
                 /\ covered /\ price > 0
                 /\ UNCHANGED dbvars]_vars

\* a fully discounted paid booking has just been refused while a free
\* booking with a coupon stands at a final amount of zero
DiscountFloorWitness ==
  /\ response = [op |-> "createTransaction", result |-> ErrFinalAmount]
  /\ \E i \in TxIds : /\ transactions[i].unitPrice = 0
                       /\ transactions[i].couponId # NoId
                       /\ transactions[i].finalAmount = 0

\* the preconditions of a booking, on the state the step starts in
BuyerExists(a) == a.userId \in Users

OfferingExists(a) ==
  /\ a.ticketTypeId \in TicketTypeIds
  /\ ~TicketTypes[a.ticketTypeId].deleted
  /\ TicketTypes[a.ticketTypeId].eventId = a.eventId

EventOpen(a) ==
  /\ Events[a.eventId].published
  /\ ~(Events[a.eventId].endDate < now)

Affordable(a) ==
  /\ a.quantity <= availableSeats[a.ticketTypeId]
  /\ a.pointsUsed > 0 => points[a.userId] >= a.pointsUsed

\* C16: createTransaction commits a booking only if the buyer exists, the
\* ticket type exists, is not soft-deleted and belongs to the given event,
\* the event is published and has not ended, quantity <= availableSeats and,
\* when pointsUsed > 0, the buyer's points >= pointsUsed; a request that
\* fails one of them is answered an error, by the first step that can tell,
\* and no state changes.
ValidatedCreate ==
  [][/\ \A a \in ValidateRequests :
          \/ ~BuyerExists(a)
          \/ ~OfferingExists(a)
          \/ ~EventOpen(a)
          \/ ~Affordable(a)
          => /\ Free(1) /\ call'[1].op = "createTransaction" /\ call'[1].args = a
                  => BuyerExists(a)
             /\ At(1, "createTransaction", "ticketType") /\ call[1].args = a
                  => /\ call'[1] = Done
                     /\ response'.result \notin {OK, ErrFinalAmount}
     /\ Completes(1, "createTransaction", "tx") /\ response'.result = OK =>
          LET a == call[1].args IN
          /\ BuyerExists(a) /\ OfferingExists(a) /\ EventOpen(a) /\ Affordable(a)
          /\ Len(transactions') = Len(transactions) + 1
     /\ response'.op = "createTransaction" /\ response'.result # OK
          => UNCHANGED dbvars]_vars

\* a request has just been refused for want of points after an earlier
\* booking of the same buyer spent them
ValidatedCreateWitness ==
  /\ response = [op |-> "createTransaction", result |-> ErrInsufficientPoints]
  /\ \E i \in TxIds : transactions[i].pointsUsed > 0

\* C17: when calls follow one another, a successful createTransaction with
\* quantity q and pointsUsed u takes q from availableSeats and u from the
\* buyer's points and stores a WAITING_FOR_PAYMENT row that records q and u;
\* a successful updateTransactionStatus(CANCELLED) gives the row's quantity
\* and pointsUsed back, so that the two in a row leave both ledgers as they
\* were, and sets CANCELLED; a CANCELLED row is refused every transition and
\* never changes again.
RoundTrip ==
  /\ [](\A id \in TxIds, status \in StatusRequests, options \in UpdateOptions :
          Visible(id, options) /\ transactions[id].status = "CANCELLED" =>
            updateTransactionStatusChecks(transactions, id, status, options) =
              ErrInvalidTransition)
  /\ [][/\ Completes(1, "createTransaction", "tx") /\ response'.result = OK =>
            LET a == call[1].args
                id == Len(transactions) + 1
            IN  /\ availableSeats' =
                     [availableSeats EXCEPT ![a.ticketTypeId] = @ - a.quantity]
                /\ points' = [points EXCEPT ![a.userId] = @ - a.pointsUsed]
                /\ Len(transactions') = id
                /\ transactions'[id].status = "WAITING_FOR_PAYMENT"
                /\ transactions'[id].userId = a.userId
                /\ transactions'[id].ticketTypeId = a.ticketTypeId
                /\ transactions'[id].quantity = a.quantity
                /\ transactions'[id].pointsUsed = a.pointsUsed
        /\ (/\ Completes(1, "updateTransactionStatus", "tx")
            /\ response'.result = OK
            /\ call[1].status = "CANCELLED") =>
             LET row == transactions[call[1].id] IN
             /\ availableSeats' =
                  [availableSeats EXCEPT ![row.ticketTypeId] = @ + row.quantity]
             /\ points' = [points EXCEPT ![row.userId] = @ + row.pointsUsed]
             /\ transactions'[call[1].id].status = "CANCELLED"
        /\ \A i \in TxIds :
             transactions[i].status = "CANCELLED" =>
               transactions'[i] = transactions[i]]_vars

\* a booking of two seats paid in part with points has just been cancelled:
\* all seats and the buyer's points are back
RoundTripWitness ==
  /\ response = UpdateResponse(OK)
  /\ \E i \in TxIds : /\ transactions[i].status = "CANCELLED"
                       /\ transactions[i].quantity = 2
                       /\ transactions[i].pointsUsed = 1
                       /\ availableSeats[transactions[i].ticketTypeId] = 2
                       /\ points[transactions[i].userId] = 1

UploadResponse(result) == [op |-> "uploadPaymentProof", result |-> result]

\* C18: uploadPaymentProof goes on to its write only for the transaction's
\* own buyer, only if the status is WAITING_FOR_PAYMENT and only if
\* now <= expiresAt; the write stores the proof and sets
\* WAITING_FOR_CONFIRMATION; another status is refused as not waiting for
\* payment, a passed deadline as expired, and a refused or failed call
\* leaves the transaction as it was.
PaymentProof ==
  [][/\ \A id \in 1..MaxTx, u \in Users :
          UploadStart(1, id, u, "proof.png") =>
            IF ~(id \in TxIds /\ transactions[id].userId = u)
              THEN response' = UploadResponse(ErrTransactionNotFound)
            ELSE IF transactions[id].status # "WAITING_FOR_PAYMENT"
              THEN response' = UploadResponse(ErrNotWaitingForPayment)
            ELSE IF ~(now <= transactions[id].expiresAt)
              THEN response' = UploadResponse(ErrUploadExpired)
            ELSE /\ response' = NoResponse
                 /\ call'[1] = [op |-> "uploadPaymentProof", pc |-> "update",
                                 id |-> id, paymentProof |-> "proof.png"]
     /\ Completes(1, "uploadPaymentProof", "update") =>
          LET id == call[1].id IN
          /\ transactions[id].status = "WAITING_FOR_PAYMENT"
          /\ IF response'.result = OK
               THEN transactions' =
                      [transactions EXCEPT
                         ![id].paymentProof = call[1].paymentProof,
                         ![id].status = "WAITING_FOR_CONFIRMATION",
                         ![id].updatedAt = now]
               ELSE UNCHANGED transactions
     /\ response'.op = "uploadPaymentProof" =>
          /\ UNCHANGED <<availableSeats, points, userCoupons, userVouchers,
                         restoreLog>>
          /\ response'.result # OK => UNCHANGED transactions]_vars

\* a proof has just been refused as too late while another booking, paid at
\* its very deadline, waits for confirmation
PaymentProofWitness ==
  /\ response = UploadResponse(ErrUploadExpired)
  /\ \E i \in TxIds : /\ transactions[i].status = "WAITING_FOR_CONFIRMATION"
                       /\ transactions[i].paymentProof = "proof.png"
                       /\ transactions[i].updatedAt = transactions[i].expiresAt

\* what a run of the sweeper has to do, for the scan and the bookings that
\* the scan has to select: the run takes exactly those, each unit of work
\* sets the target status and gives the booking's seats and points back, no
\* other booking is touched, and at the end of the run every selected
\* booking has the target status and was restored once
SweepRun(scan, due) ==
  LET c == call[1]
      target == SweepTarget[scan]
  IN
  /\ SweepScan(1, scan) =>
       IF due = {} THEN response' = [op |-> "sweep", result |-> OK]
       ELSE /\ call'[1].op = "sweep"
            /\ call'[1].selected = due
            /\ call'[1].status = target
  /\ c.op = "sweep" /\ c.status = target =>
       /\ \A i \in TxIds \ c.selected : transactions'[i] = transactions[i]
       /\ c.pc = "tx" /\ call'[1] # c =>
            LET row == transactions[c.id] IN
            /\ transactions'[c.id].status = target
            /\ availableSeats' =
                 [availableSeats EXCEPT ![row.ticketTypeId] = @ + row.quantity]
            /\ points' = [points EXCEPT ![row.userId] = @ + row.pointsUsed]
       /\ call'[1] = Done =>
            \A i \in c.selected : /\ transactions'[i].status = target
                                   /\ restoreLog'[i] = 1

\* seats and points balance: what is available plus what the live bookings
\* hold is what there was
Balanced ==
  /\ \A t \in TicketTypeIds :
       availableSeats[t] + LiveSeats(t) = TicketTypes[t].totalSeats
  /\ \A u \in Users : points[u] + LivePoints(u) = InitialPoints[u]

\* C19: the expiry scan selects exactly the transactions with status
\* WAITING_FOR_PAYMENT and expiresAt < now; driving each of them through
\* updateTransactionStatus(EXPIRED, auto-process) leaves it EXPIRED with its
\* seats and points restored, and a WAITING_FOR_PAYMENT transaction whose
\* deadline has not passed is untouched by the same run.
ExpirySweep ==
  /\ []Balanced
  /\ [][SweepRun("expired",
                  {i \in TxIds : /\ transactions[i].status = "WAITING_FOR_PAYMENT"
                                 /\ transactions[i].expiresAt < now})]_vars

\* a run has just ended that expired a booking paid in part with points and
\* left alone a booking whose deadline is not over
ExpirySweepWitness ==
  /\ response = [op |-> "sweep", result |-> OK]
  /\ \E i, j \in TxIds :
       /\ transactions[i].status = "EXPIRED"
       /\ transactions[i].pointsUsed > 0
       /\ restoreLog[i] = 1
       /\ points[transactions[i].userId] = InitialPoints[transactions[i].userId]
       /\ transactions[j].status = "WAITING_FOR_PAYMENT"
       /\ transactions[j].expiresAt >= now
       /\ transactions[j].updatedAt < transactions[i].updatedAt

\* C20: the stale-confirmation scan selects exactly the transactions with
\* status WAITING_FOR_CONFIRMATION whose last update is more than 3 days
\* before now; driving each of them through
\* updateTransactionStatus(CANCELLED, auto-process) leaves it CANCELLED with
\* its resources restored, and a transaction updated within the last 3 days
\* is not selected.
StaleSweep ==
  /\ []Balanced
  /\ [][SweepRun("pending",
                  {i \in TxIds :
                     /\ transactions[i].status = "WAITING_FOR_CONFIRMATION"
                     /\ now - transactions[i].updatedAt > ThreeDays})]_vars

\* a run has just ended that cancelled a stale booking and left alone one
\* whose proof is exactly three days old
StaleSweepWitness ==
  /\ response = [op |-> "sweep", result |-> OK]
  /\ \E i, j \in TxIds :
       /\ transactions[i].status = "CANCELLED"
       /\ transactions[i].paymentProof = "proof.png"
       /\ restoreLog[i] = 1
       /\ transactions[j].status = "WAITING_FOR_CONFIRMATION"
       /\ now - transactions[j].updatedAt = ThreeDays

\* C21: updateTransactionStatus goes on to its write only for the automated
\* process or for a caller whose organizerId is the transaction's; a manual
\* call without an organizerId is rejected, a manual call with another
\* organizer's id fails as not found, and neither changes any state.
OrganizerOnly ==
  /\ [](\A id \in 1..MaxTx, status \in StatusRequests, options \in UpdateOptions :
          LET r == updateTransactionStatusChecks(transactions, id, status, options)
              manual == ~options.isAutoProcess
          IN  /\ r = OK => Visible(id, options)
              /\ manual /\ options.organizerId = NoId => r = ErrOrganizerRequired
              /\ /\ manual
                 /\ options.organizerId # NoId
                 /\ id \in TxIds
                 /\ options.organizerId # transactions[id].organizerId
                 => r = ErrTransactionNotFound)
  /\ [][/\ response' \in {UpdateResponse(ErrOrganizerRequired),
                          UpdateResponse(ErrTransactionNotFound)}
             => UNCHANGED dbvars
        /\ \A p \in Procs :
             Free(p) /\ call'[p].op = "updateTransactionStatus" =>
               \E options \in UpdateOptions :
                 /\ Visible(call'[p].id, options)
                 /\ UpdateStart(p, call'[p].id, call'[p].status, options)]_vars

\* another organizer has just been told that an existing booking, which
\* its own organizer could confirm, is not found
OrganizerOnlyWitness ==
  /\ response = UpdateResponse(ErrTransactionNotFound)
  /\ Len(transactions) = MaxTx
  /\ \A i \in TxIds : transactions[i].status = "WAITING_FOR_CONFIRMATION"

\* C22: a failure of the mail call during updateTransactionStatus to DONE or
\* REJECTED does not fail the call and rolls nothing back: the call answers
\* OK and the database is left exactly as by the same call with a working
\* mail service, the new status written and, for REJECTED, seats and points
\* given back; only the mail is missing.
NotificationBestEffort ==
  [][UpdateCommit(1, "mail") =>
       LET c == call[1]
           row == transactions[c.id]
       IN  /\ response' = UpdateResponse(OK)
           /\ DB' = updateTransactionStatusTx(DB, c, "none", now).db
           /\ transactions'[c.id].status = c.status
           /\ c.status = "REJECTED" =>
                /\ availableSeats'[row.ticketTypeId] =
                     availableSeats[row.ticketTypeId] + row.quantity
                /\ points'[row.userId] = points[row.userId] + row.pointsUsed
           /\ c.status \in Notified => outbox' = outbox]_vars

\* a booking paid in part with points stands REJECTED with its resources
\* back, the call answered OK, and no mail has left
NotificationBestEffortWitness ==
  /\ response = UpdateResponse(OK)
  /\ outbox = {}
  /\ \E i \in TxIds : /\ transactions[i].status = "REJECTED"
                       /\ transactions[i].pointsUsed > 0
                       /\ restoreLog[i] = 1
                       /\ points[transactions[i].userId] = InitialPoints[transactions[i].userId]

\* C23: the notification of a change to DONE or REJECTED is sent after the
\* unit of work of the status update has committed: every mail that a call
\* has sent names the status that its transaction has when the call answers.
NotifiedAfterCommit ==
  \A m \in outbox : transactions[m[1]].status = m[2]

CouponCodes == {"SAVE", "TWICE", "LATER", "GONE", "NOPE"}
VoucherCodes == {"VOUCH", "OTHER", "NOPE"}

\* the answer the four checks ask for, in their order, for the grants G
\* that carry the code, their table T and its usage records R
Resolved(G, T, R, u, errors) ==
  IF G = {} THEN [error |-> errors[1], grant |-> NoId]
  ELSE LET g == CHOOSE x \in G : TRUE
           active == T[g].startDate <= now /\ now <= T[g].endDate
           below == SumOver(Users, [w \in Users |-> R[<<w, g>>].USED])
                      < T[g].usageLimit
           held == R[<<u, g>>].USED >= 1
       IN  IF active /\ below /\ ~held THEN [error |-> OK, grant |-> g]
           ELSE [error |-> IF ~active THEN errors[2]
                           ELSE IF ~below THEN errors[3] ELSE errors[4],
                 grant |-> NoId]

\* C24: validateCoupon(code, user) and validateVoucher(code, event, user)
\* return the grant exactly when a non-deleted grant with that code exists
\* (for vouchers, for that event), now is within [startDate, endDate], the
\* USED records of the grant are fewer than usageLimit and the user holds no
\* USED record for it; otherwise they fail with the first failing check, in
\* the order not found, inactive, limit exceeded, already used. The create
\* that validates answers that error, or goes on with that grant.
GrantResolution ==
  /\ [](\A u \in Users :
          /\ \A code \in CouponCodes :
               validateCoupon(DB, code, u, now) =
                 Resolved({c \in CouponIds :
                             Coupons[c].code = code /\ ~Coupons[c].deleted},
                          Coupons, userCoupons, u,
                          <<ErrInvalidCoupon, ErrCouponInactive, ErrCouponLimit,
                            ErrCouponUsed>>)
          /\ \A code \in VoucherCodes, e \in DOMAIN Events :
               validateVoucher(DB, code, e, u, now) =
                 Resolved({v \in VoucherIds : /\ Vouchers[v].code = code
                                              /\ Vouchers[v].eventId = e
                                              /\ ~Vouchers[v].deleted},
                          Vouchers, userVouchers, u,
                          <<ErrInvalidVoucher, ErrVoucherInactive,
                            ErrVoucherLimit, ErrVoucherUsed>>))
  /\ [][LET c == call[1]
            v == validateCoupon(DB, c.args.couponCode, c.args.userId, now)
        IN  At(1, "createTransaction", "coupon") /\ call'[1] # c =>
              IF v.error = OK
                THEN call'[1].op = c.op /\ call'[1].couponId = v.grant
                ELSE response' = [op |-> c.op, result |-> v.error]]_vars

\* a buyer has just been told that TWICE, which another buyer could still
\* apply, is already used by them
GrantResolutionWitness ==
  /\ response = [op |-> "createTransaction", result |-> ErrCouponUsed]
  /\ UsedCount(userCoupons, 2) = 1
  /\ \E u \in Users : validateCoupon(DB, "TWICE", u, now).error = OK

\* the USED records of user u for grant g, in the records R
Used(R, u, g) == R[<<u, g>>].USED

\* C25: resolving a coupon or a voucher changes no state; a usage record
\* becomes USED only in the unit of work of a createTransaction that commits,
\* and only for that call's buyer and resolved grant; after a
\* createTransaction that fails no usage record was created or marked USED.
ResolutionIsPure ==
  [][/\ \A p \in Procs :
          (/\ \/ At(p, "createTransaction", "coupon")
              \/ At(p, "createTransaction", "voucher")
           /\ call'[p] # call[p]) => UNCHANGED dbvars
     /\ \A u \in Users, g \in CouponIds :
          Used(userCoupons', u, g) > Used(userCoupons, u, g) =>
            \E p \in Procs :
              /\ Completes(p, "createTransaction", "tx")
              /\ response'.result = OK
              /\ call[p].args.userId = u /\ call[p].couponId = g
     /\ \A u \in Users, g \in VoucherIds :
          Used(userVouchers', u, g) > Used(userVouchers, u, g) =>
            \E p \in Procs :
              /\ Completes(p, "createTransaction", "tx")
              /\ response'.result = OK
              /\ call[p].args.userId = u /\ call[p].voucherId = g
     /\ \A p \in Procs :
          (/\ call[p].op = "createTransaction" /\ call'[p] = Done
           /\ response'.result # OK) =>
            UNCHANGED <<userCoupons, userVouchers>>]_vars

\* a createTransaction has failed on its voucher, whose one use is taken,
\* after it had resolved a coupon that nobody has used
ResolutionIsPureWitness ==
  /\ response = [op |-> "createTransaction", result |-> ErrVoucherLimit]
  /\ UsedCount(userVouchers, 1) = 1
  /\ UsedCount(userCoupons, 1) = 0

\* the usage records of user u for grant g, USED or ACTIVE, in the records R
Records(R, u, g) == R[<<u, g>>].USED + R[<<u, g>>].ACTIVE

\* C26: createTransaction creates a usage record for (buyer, grant) only if
\* the buyer has none, and otherwise marks the record the buyer holds USED:
\* after any sequence of create and reverse operations there is at most one
\* usage record per (user, grant).
OneRecordPerGrant ==
  /\ \A u \in Users, g \in CouponIds : Records(userCoupons, u, g) <= 1
  /\ \A u \in Users, g \in VoucherIds : Records(userVouchers, u, g) <= 1

\* C27: getTransaction and getTransactionById return to a caller only
\* transactions whose buyer (userId) or seller (organizerId) is the caller,
\* for every caller id and every role value passed.
OwnTransactionsOnly ==
  response.op \in {"getTransaction", "getTransactionById"} /\ response.result = OK =>
    \A r \in response.rows :
      r.userId = response.userId \/ r.organizerId = response.userId

\* C28: the transaction that a successful createTransaction returns is the
\* row it has just stored: its status is WAITING_FOR_PAYMENT, its expiresAt
\* is the instant of creation plus two hours, it has no payment proof, its
\* unitPrice is the price of the ticket type, and the same step has taken
\* its quantity from the availableSeats of that ticket type.
CreatedTransaction ==
  [][(/\ Completes(1, "createTransaction", "tx")
      /\ response'.result = OK) =>
       /\ Len(transactions') = Len(transactions) + 1
       /\ LET row == transactions'[Len(transactions')]
              tt == call[1].args.ticketTypeId
          IN  /\ row.id = Len(transactions')
              /\ row.userId = call[1].args.userId
              /\ row.ticketTypeId = tt
              /\ row.quantity = call[1].args.quantity
              /\ row.status = "WAITING_FOR_PAYMENT"
              /\ row.expiresAt = now + TwoHours
              /\ row.paymentProof = NoProof
              /\ row.unitPrice = TicketTypes[tt].price
              /\ availableSeats'[tt] = availableSeats[tt] - row.quantity
              /\ \A o \in TicketTypeIds \ {tt} :
                   availableSeats'[o] = availableSeats[o]]_vars

\* a booking of two paid seats made at hour 1: it expires at hour 3 and no
\* seat of the ticket type is left
CreatedTransactionWitness ==
  /\ response = [op |-> "createTransaction", result |-> OK]
  /\ \E i \in TxIds : /\ transactions[i].ticketTypeId = 1
                       /\ transactions[i].quantity = 2
                       /\ transactions[i].expiresAt = 1 + TwoHours
                       /\ transactions[i].unitPrice = 2
  /\ availableSeats[1] = 0

\* C29: every stored transaction has a quantity of at least 1, and no
\* createTransaction increases the availableSeats of a ticket type.
PositiveQuantity ==
  /\ [](\A i \in TxIds : transactions[i].quantity >= 1)
  /\ [][\A tt \in TicketTypeIds :
          call[1].op = "createTransaction" =>
            availableSeats'[tt] <= availableSeats[tt]]_vars

Owners == <<availableSeats, points, userCoupons, userVouchers>>

\* C30: uploadPaymentProof and an updateTransactionStatus to
\* WAITING_FOR_CONFIRMATION or DONE change no ticket type's availableSeats,
\* no user's points and no usage record; availableSeats changes only in the
\* step that commits a createTransaction or an updateTransactionStatus to
\* REJECTED, EXPIRED or CANCELLED.
StatusChangeFrame ==
  [][/\ call[1].op = "uploadPaymentProof" => UNCHANGED Owners
     /\ (/\ call[1].op = "updateTransactionStatus"
         /\ call[1].status \in {"WAITING_FOR_CONFIRMATION", "DONE"}) =>
          UNCHANGED Owners
     /\ availableSeats' # availableSeats =>
          /\ response'.result = OK
          /\ \/ Completes(1, "createTransaction", "tx")
             \/ /\ Completes(1, "updateTransactionStatus", "tx")
                /\ call[1].status \in {"REJECTED", "EXPIRED", "CANCELLED"}]_vars

\* a booking paid with a point and a coupon has just been confirmed: the
\* point is still spent, the coupon still used, the seats still taken
StatusChangeFrameWitness ==
  /\ response = UpdateResponse(OK)
  /\ \E i \in TxIds :
       LET row == transactions[i] IN
       /\ row.status = "DONE"
       /\ row.pointsUsed = 1 /\ points[row.userId] = InitialPoints[row.userId] - 1
       /\ row.couponId = 1 /\ Used(userCoupons, row.userId, 1) = 1
       /\ availableSeats[row.ticketTypeId] =
            TicketTypes[row.ticketTypeId].totalSeats - row.quantity

\* what a booking is created with
Fixed(row) ==
  [userId |-> row.userId, organizerId |-> row.organizerId,
   eventId |-> row.eventId, ticketTypeId |-> row.ticketTypeId,
   quantity |-> row.quantity, unitPrice |-> row.unitPrice,
   totalAmount |-> row.totalAmount, pointsUsed |-> row.pointsUsed,
   couponId |-> row.couponId, voucherId |-> row.voucherId,
   finalAmount |-> row.finalAmount, expiresAt |-> row.expiresAt]

\* C31: no step changes the buyer, organizer, ticket type, quantity,
\* unitPrice, totalAmount, pointsUsed, couponId, voucherId, finalAmount or
\* expiresAt of a stored transaction; an updateTransactionStatus call leaves
\* its payment proof too, only an uploadPaymentProof call writes it; and the
\* reversal that commits gives back the quantity and the points of the row
\* as it stands, which are those of its creation.
ImmutableBooking ==
  [][/\ \A i \in TxIds :
          /\ i \in DOMAIN transactions'
          /\ Fixed(transactions'[i]) = Fixed(transactions[i])
          /\ transactions'[i].paymentProof # transactions[i].paymentProof =>
               call[1].op = "uploadPaymentProof"
          /\ transactions'[i].status # transactions[i].status =>
               /\ call[1].op \in {"updateTransactionStatus", "uploadPaymentProof"}
               /\ call[1].id = i
     /\ (/\ Completes(1, "updateTransactionStatus", "tx")
         /\ response'.result = OK
         /\ call[1].status \in Reversing) =>
          LET row == transactions[call[1].id] IN
          /\ availableSeats'[row.ticketTypeId] =
               availableSeats[row.ticketTypeId] + row.quantity
          /\ points'[row.userId] = points[row.userId] + row.pointsUsed]_vars

\* a booking of two seats with a point and a coupon was paid and then
\* rejected: the row still says what it was created with
ImmutableBookingWitness ==
  /\ response = UpdateResponse(OK)
  /\ \E i \in TxIds :
       LET row == transactions[i] IN
       /\ row.status = "REJECTED" /\ row.paymentProof # NoProof
       /\ row.quantity = 2 /\ row.pointsUsed = 1 /\ row.couponId = 1
       /\ row.totalAmount = 4 /\ row.finalAmount = 2
       /\ restoreLog[i] = 1

\* C32: register with role CUSTOMER and the referral code of an existing
\* customer creates, in one step, the new user, 10000 points more for the
\* referrer, a coupon WELCOME<newUserId> with usageLimit 1 and one ACTIVE
\* usage record of that coupon for the new user, and nothing else; with an
\* email that is registered it fails with that error, with a referral code
\* that no user holds it fails with that error, and a register that fails
\* creates no user, no points, no coupon and no usage record.
ReferralRegistration ==
  /\ [](\A data \in RegisterRequests :
          LET r == registerChecks(users, data) IN
          /\ (\E u \in DOMAIN users : users[u].email = data.email) =>
               r.error = ErrEmailRegistered
          /\ (/\ r.error # ErrEmailRegistered
              /\ data.role = "CUSTOMER" /\ data.referralCode # NoCode
              /\ \A u \in DOMAIN users :
                   users[u].referralCode # data.referralCode) =>
               r.error = ErrInvalidReferral
          /\ r.referredById # NoId =>
               /\ r.referredById \in DOMAIN users
               /\ users[r.referredById].role = "CUSTOMER"
               /\ users[r.referredById].referralCode = data.referralCode)
  /\ [][LET c == call[1]
            n == Cardinality(DOMAIN users) + 1
            g == Cardinality(DOMAIN coupons) + 1
        IN
        /\ (call'[1].op = "register" /\ c.op # "register") =>
             registerChecks(users, call'[1].data) =
               [error |-> OK, referredById |-> call'[1].referredById]
        /\ (c.op = "register" /\ call'[1] = Done /\ response'.result # OK) =>
             UNCHANGED dbvars
        /\ (/\ c.op = "register" /\ call'[1] = Done /\ response'.result = OK
            /\ c.referredById # NoId) =>
             /\ c.data.role = "CUSTOMER"
             /\ DOMAIN users' = DOMAIN users \cup {n} /\ n \notin DOMAIN users
             /\ users'[n].email = c.data.email
             /\ users'[n].referredById = c.referredById
             /\ \A u \in DOMAIN users : users'[u] = users[u]
             /\ points'[c.referredById] = points[c.referredById] + 10000
             /\ \A u \in DOMAIN users \ {c.referredById} :
                  points'[u] = points[u]
             /\ points'[n] = 0
             /\ DOMAIN coupons' = DOMAIN coupons \cup {g}
             /\ g \notin DOMAIN coupons
             /\ \A k \in DOMAIN coupons : coupons'[k] = coupons[k]
             /\ coupons'[g].code = "WELCOME" \o ToString(n)
             /\ coupons'[g].usageLimit = 1
             /\ userCoupons'[<<n, g>>] = [USED |-> 0, ACTIVE |-> 1]
             /\ \A k \in DOMAIN userCoupons' \ {<<n, g>>} :
                  userCoupons'[k] = IF k \in DOMAIN userCoupons
                                      THEN userCoupons[k]
                                      ELSE [USED |-> 0, ACTIVE |-> 0]
             /\ UNCHANGED <<availableSeats, transactions, events>>]_vars

\* user 3 has registered with the referral code of user 1
ReferralRegistrationWitness ==
  /\ response = [op |-> "register", result |-> OK]
  /\ 3 \in DOMAIN users /\ users[3].referredById = 1
  /\ points[1] = InitialPoints[1] + 10000
  /\ \E g \in DOMAIN coupons : /\ coupons[g].code = "WELCOME3"
                                /\ userCoupons[<<3, g>>].ACTIVE = 1

\* C40: a welcome coupon WELCOME<userId> is consumed only by the user it was
\* granted to: every USED record of it, and every booking that applied it,
\* belongs to that user.
WelcomeCouponOwnUse ==
  \A g \in DOMAIN coupons \ CouponIds :
    /\ \A u \in DOMAIN users :
         userCoupons[<<u, g>>].USED > 0 => coupons[g].code = WelcomeCode(u)
    /\ \A i \in TxIds :
         transactions[i].couponId = g =>
           coupons[g].code = WelcomeCode(transactions[i].userId)

\* C34: in every reachable state, for every ticket type, availableSeats plus
\* the quantities of its transactions in WAITING_FOR_PAYMENT,
\* WAITING_FOR_CONFIRMATION or DONE is totalSeats.
SeatAccounting ==
  \A t \in TicketTypeIds :
    availableSeats[t] + LiveSeats(t) = TicketTypes[t].totalSeats

\* the referral rewards credited to user u
Rewards(u) ==
  ReferralReward * Cardinality({v \in DOMAIN users : users[v].referredById = u})

\* C35: in every reachable state, for every user, the points balance plus
\* the pointsUsed of the user's transactions in WAITING_FOR_PAYMENT,
\* WAITING_FOR_CONFIRMATION or DONE is the initial balance plus the referral
\* rewards credited to the user.
PointsAccounting ==
  \A u \in DOMAIN users :
    points[u] + LivePoints(u) =
      (IF u \in Users THEN InitialPoints[u] ELSE 0) + Rewards(u)

\* the live bookings of user u that applied the coupon (voucher) g
LiveWithCoupon(u, g) ==
  {i \in TxIds : /\ transactions[i].status \in Live
                  /\ transactions[i].userId = u
                  /\ transactions[i].couponId = g}

LiveWithVoucher(u, g) ==
  {i \in TxIds : /\ transactions[i].status \in Live
                  /\ transactions[i].userId = u
                  /\ transactions[i].voucherId = g}

\* C37: in every reachable state a user holds a USED usage record for a
\* coupon or a voucher if and only if the user has a transaction in
\* WAITING_FOR_PAYMENT, WAITING_FOR_CONFIRMATION or DONE that applied it.
UsageAgreesWithBookings ==
  \A u \in DOMAIN users :
    /\ \A g \in DOMAIN coupons :
         userCoupons[<<u, g>>].USED > 0 <=> LiveWithCoupon(u, g) # {}
    /\ \A g \in VoucherIds :
         userVouchers[<<u, g>>].USED > 0 <=> LiveWithVoucher(u, g) # {}

\* C36: every transaction in WAITING_FOR_CONFIRMATION or DONE has a payment
\* proof attached, and a step that takes a transaction from
\* WAITING_FOR_PAYMENT to WAITING_FOR_CONFIRMATION is the update of an
\* uploadPaymentProof call.
ProofBeforeConfirmation ==
  /\ [](\A i \in TxIds :
          transactions[i].status \in {"WAITING_FOR_CONFIRMATION", "DONE"} =>
            transactions[i].paymentProof # NoProof)
  /\ [][\A i \in TxIds :
          (/\ transactions[i].status = "WAITING_FOR_PAYMENT"
           /\ transactions'[i].status = "WAITING_FOR_CONFIRMATION") =>
            call[1].op = "uploadPaymentProof"]_vars

\* C33: an event with a DONE transaction is never unpublished and never
\* soft-deleted: the step in which unpublishEvent or deleteEvent writes the
\* event finds no DONE transaction of it, also when the call overlaps the
\* updateTransactionStatus that moves a transaction of the event to DONE.
NoWithdrawalAfterDone ==
  [][\A p \in Procs :
       (/\ call[p].op \in EventOps /\ call[p].pc = "update"
        /\ call'[p] = Done /\ response'.result = OK) =>
         ~\E i \in TxIds : /\ transactions[i].eventId = call[p].id
                            /\ transactions[i].status = "DONE"]_vars

\* C39: at any instant a WAITING_FOR_PAYMENT transaction is either within
\* its payment window (now <= expiresAt) or selected by the expiry scan,
\* never both and never neither; and when a proof upload and an expiry by
\* the sweeper overlap, the transaction is never WAITING_FOR_CONFIRMATION
\* with its resources released.
DeadlineRace ==
  \A i \in TxIds :
    /\ transactions[i].status = "WAITING_FOR_PAYMENT" =>
         (now <= transactions[i].expiresAt) #
           (i \in getExpiredTransactions(transactions, now))
    /\ transactions[i].status = "WAITING_FOR_CONFIRMATION" =>
         /\ restoreLog[i] = 0
         /\ availableSeats[transactions[i].ticketTypeId] <=
              TicketTypes[transactions[i].ticketTypeId].totalSeats -
                transactions[i].quantity

\* C38: with time advancing and the sweeper running again and again, every
\* created transaction eventually has one of the statuses DONE, REJECTED,
\* EXPIRED, CANCELLED; on the way a WAITING_FOR_PAYMENT transaction can only
\* be paid, EXPIRED or CANCELLED, and a WAITING_FOR_CONFIRMATION one can only
\* be reviewed (DONE, REJECTED) or CANCELLED.
StatusIn(id, statuses) ==
  id \in TxIds /\ transactions[id].status \in statuses

EventuallyTerminal ==
  /\ \A id \in 1..MaxTx : (id \in TxIds) ~> StatusIn(id, Terminal)
  /\ [][\A id \in TxIds :
         LET old == transactions[id].status
             new == transactions'[id].status
         IN  /\ (old = "WAITING_FOR_PAYMENT" /\ new # old) =>
                  new \in {"WAITING_FOR_CONFIRMATION", "EXPIRED", "CANCELLED"}
             /\ (old = "WAITING_FOR_CONFIRMATION" /\ new # old) =>
                  new \in {"DONE", "REJECTED", "CANCELLED"}]_vars

\* one booking was never paid and is EXPIRED, another was paid, never
\* reviewed, and was CANCELLED more than three days later
EventuallyTerminalWitness ==
  /\ \E i \in TxIds : /\ transactions[i].status = "EXPIRED"
                       /\ transactions[i].paymentProof = NoProof
  /\ \E i \in TxIds : /\ transactions[i].status = "CANCELLED"
                       /\ transactions[i].paymentProof # NoProof
                       /\ transactions[i].updatedAt > ThreeDays

====
